---- MODULE Spec2Model ----
(***************************************************************************)
(* Model of the stock explorer of tilde-news-summary: the StockExplorer    *)
(* component (series fetch, Williams-fractal spike detection, per-date     *)
(* news cache, popover selection).  Array indices are 0-based as in the    *)
(* source; At(seq, i) reads the element the source writes seq[i].          *)
(* Dates are day numbers (the source compares date strings with === only). *)
(* Texts and nullable objects are records so that null, a fallback text    *)
(* and a summary can be compared with one another.  The messages of the    *)
(* source are written here without their diacritics.                       *)
(***************************************************************************)
EXTENDS Integers, Sequences, FiniteSets, Bags, TLC

----------------------------------------------------------------------------
(* Bounds of the model *)

\* series requests issued in one session, the one of the mount included
MaxSeriesRequests == 3
\* series requests that may be in flight at once
MaxStockInFlight == 2
\* news requests that may be in flight at once
MaxNewsInFlight == 2

----------------------------------------------------------------------------
(* Program constants *)

DEFAULT_SYMBOL == "YPF"
DEFAULT_RANGE == "3M"
RANGE_OPTIONS == {"1M", "3M", "6M", "1Y"}
LEFT_BARS == 4
RIGHT_BARS == 4
MIN_PROMINENCE_PERCENT == 2
MIN_SERIES_LENGTH == 9
HORIZONTAL_PADDING == 16
POPOVER_WIDTH == 360

ValidationMessage == "Ingresa un ticker valido para continuar"
DefaultApiError == "Error consultando la API de acciones"
RateLimitMessage == "Has alcanzado el limite de solicitudes."
UnavailableMessage == "El servicio no esta disponible temporalmente."
TimeoutMessage == "La solicitud tardo demasiado tiempo."
UnsuccessfulMessage == "No se pudo obtener la informacion bursatil"
UnexpectedMessage == "Error inesperado al obtener las cotizaciones"

NULL == [null |-> TRUE]
UNDEFINED == [undefined |-> TRUE]
EmptyText == [text |-> ""]
NoSummaryText == [text |-> "No hay resumen disponible."]
FallbackMessage == [text |-> "No se encontraron noticias para esta fecha."]
ErrorMessage == [text |-> "Error al cargar las noticias."]

----------------------------------------------------------------------------
(* Inputs: what the user types and clicks, what the collaborators answer *)

Tickers == {"YPF", "AAPL"}
TypedInputs == {" ", "ypf", "AAPL"}
RangeClicks == {"1M", "3M"}
ClickIndices == {4, 10}
ViewportWidths == {1280}
Dates == 1..10

Abs(n) == IF n < 0 THEN -n ELSE n

ToUpperCase(s) ==
    IF s = "ypf" THEN "YPF" ELSE IF s = "max" THEN "MAX" ELSE s

TrimNothing(s) == s

Trim(s) == IF s = " " THEN "" ELSE s

\* the closes of the daily history of a ticker, dates 1..10
HistoryClose(sym) ==
    IF sym = "YPF"
    THEN <<100, 100, 100, 100, 100, 110, 100, 100, 100, 100>>
    ELSE <<50, 50, 50, 50, 40, 50, 50, 50, 50, 50>>

\* rows the stocks route answers for a range: the tail of the history
\* (parsed.slice(-days)); the route's 22 and 66 rows are scaled to a history
\* of 10 days, so that "1M" cuts the history and the longer ranges do not
TailLength(rng) == IF rng = "1M" THEN 9 ELSE 10

ProviderSeries(sym, rng) ==
    LET h == HistoryClose(sym)
        n == TailLength(rng)
        first == Len(h) - n
    IN  [k \in 1..n |-> [date |-> first + k, close |-> h[first + k]]]

SuggestionsFor(sym) == IF sym = "YPF" THEN <<"AAPL">> ELSE <<"YPF">>

NotFoundMessage(sym) == "No se encontraron datos historicos"

\* the text the news route sends as payload.summary for a query and a date
SummaryOf(sym, date) == [text |-> "summary", query |-> sym, date |-> date]

At(seq, i) == seq[i + 1]

InRange(seq, i) == i >= 0 /\ i < Len(seq)

----------------------------------------------------------------------------
(* Exact arithmetic of the percentages: a rational is <<num, den>>, den > 0 *)

RECURSIVE Gcd(_, _)
Gcd(a, b) == IF b = 0 THEN a ELSE Gcd(b, a % b)

Frac(n, d) ==
    LET g == Gcd(Abs(n), Abs(d))
        s == IF d < 0 THEN -1 ELSE 1
    IN  <<(s * n) \div g, (s * d) \div g>>

\* a change taken against the point itself
ChangePercentOfCurrent(prices, i) ==
    IF i > 0 /\ InRange(prices, i - 1) /\ At(prices, i).close # 0
    THEN Frac((At(prices, i).close - At(prices, i - 1).close) * 100,
              At(prices, i).close)
    ELSE <<0, 1>>

\* ((curr - prev) / prev) * 100, and 0 without a previous point or with close 0
ChangePercent(prices, i) ==
    IF i > 0 /\ InRange(prices, i - 1) /\ At(prices, i - 1).close # 0
    THEN Frac((At(prices, i).close - At(prices, i - 1).close) * 100,
              At(prices, i - 1).close)
    ELSE <<0, 1>>

----------------------------------------------------------------------------
(* detectSpikes *)

LeftBars(i) == (i - LEFT_BARS)..(i - 1)

\* a right window that is one bar short
RightBarsShort(i) == (i + 1)..(i + RIGHT_BARS - 1)

RightBars(i) == (i + 1)..(i + RIGHT_BARS)

\* IsPeak with a non-strict comparison on the right side
IsPeakOrTie(prices, i) ==
    /\ \A j \in LeftBars(i) : At(prices, i).close > At(prices, j).close
    /\ \A j \in RightBars(i) : At(prices, i).close >= At(prices, j).close

\* IsPeak without the comparison on the right side
IsPeakLeftOnly(prices, i) ==
    \A j \in LeftBars(i) : At(prices, i).close > At(prices, j).close

IsPeak(prices, i) ==
    /\ \A j \in LeftBars(i) : At(prices, i).close > At(prices, j).close
    /\ \A j \in RightBars(i) : At(prices, i).close > At(prices, j).close

IsValley(prices, i) ==
    /\ \A j \in LeftBars(i) : At(prices, i).close < At(prices, j).close
    /\ \A j \in RightBars(i) : At(prices, i).close < At(prices, j).close

RECURSIVE SumClose(_, _)
SumClose(prices, idxs) ==
    IF idxs = {} THEN 0
    ELSE LET j == CHOOSE x \in idxs : TRUE
         IN  At(prices, j).close + SumClose(prices, idxs \ {j})

\* a filter that takes the percentage against the point itself
ProminentAgainstSelf(prices, i) ==
    LET allNeighbors == LeftBars(i) \cup RightBars(i)
        count == Cardinality(allNeighbors)
        sum == SumClose(prices, allNeighbors)
    IN  IF At(prices, i).close # 0
        THEN Abs(count * At(prices, i).close - sum) * 100
                 >= MIN_PROMINENCE_PERCENT * count * Abs(At(prices, i).close)
        ELSE 0 >= MIN_PROMINENCE_PERCENT

\* a filter that discards a prominence of exactly the minimum
ProminentEnoughStrict(prices, i) ==
    LET allNeighbors == LeftBars(i) \cup RightBars(i)
        count == Cardinality(allNeighbors)
        sum == SumClose(prices, allNeighbors)
    IN  IF sum # 0
        THEN Abs(count * At(prices, i).close - sum) * 100
                 > MIN_PROMINENCE_PERCENT * Abs(sum)
        ELSE 0 > MIN_PROMINENCE_PERCENT

\* prominencePercent >= MIN_PROMINENCE_PERCENT, with avgNeighbor = sum / count:
\* |(curr - avg) / avg| * 100 = |count * curr - sum| * 100 / |sum|
ProminentEnough(prices, i) ==
    LET allNeighbors == LeftBars(i) \cup RightBars(i)
        count == Cardinality(allNeighbors)
        sum == SumClose(prices, allNeighbors)
    IN  IF sum # 0
        THEN Abs(count * At(prices, i).close - sum) * 100
                 >= MIN_PROMINENCE_PERCENT * Abs(sum)
        ELSE 0 >= MIN_PROMINENCE_PERCENT

\* a spike that starts as loaded, with the text of a summary that is missing
DetectedSpikeLoaded(prices, i) ==
    [date |-> At(prices, i).date,
     index |-> i,
     close |-> At(prices, i).close,
     changePercent |-> ChangePercent(prices, i),
     newsLoaded |-> TRUE,
     newsSummary |-> NoSummaryText,
     kind |-> IF IsPeak(prices, i) THEN "peak" ELSE "valley"]

\* a spike that carries the 1-based position of the point
DetectedSpikeOneBased(prices, i) ==
    [date |-> At(prices, i).date,
     index |-> i + 1,
     close |-> At(prices, i).close,
     changePercent |-> ChangePercent(prices, i),
     newsLoaded |-> FALSE,
     newsSummary |-> NULL,
     kind |-> IF IsPeak(prices, i) THEN "peak" ELSE "valley"]

DetectedSpike(prices, i) ==
    [date |-> At(prices, i).date,
     index |-> i,
     close |-> At(prices, i).close,
     changePercent |-> ChangePercent(prices, i),
     newsLoaded |-> FALSE,
     newsSummary |-> NULL,
     kind |-> IF IsPeak(prices, i) THEN "peak" ELSE "valley"]

RECURSIVE DetectLoop(_, _, _)
DetectLoop(prices, i, detected) ==
    IF ~(i < Len(prices) - RIGHT_BARS) THEN detected
    ELSE IF ~IsPeak(prices, i) /\ ~IsValley(prices, i)
         THEN DetectLoop(prices, i + 1, detected)
    ELSE IF ~ProminentEnough(prices, i)
         THEN DetectLoop(prices, i + 1, detected)
    ELSE DetectLoop(prices, i + 1, Append(detected, DetectedSpike(prices, i)))

detectSpikes(prices) ==
    IF Len(prices) < MIN_SERIES_LENGTH THEN <<>>
    ELSE DetectLoop(prices, LEFT_BARS, <<>>)

\* a pass that runs on the series without its first point
SpikesEffectOfTail(newData) ==
    IF Len(newData) > 0 THEN detectSpikes(Tail(newData)) ELSE <<>>

\* useEffect(data): the detection pass that follows every setData
SpikesEffect(newData) ==
    IF Len(newData) > 0 THEN detectSpikes(newData) ELSE <<>>

----------------------------------------------------------------------------
(* State of the StockExplorer component *)

VARIABLES
    symbol,           \* useState symbol
    searchTerm,       \* useState searchTerm
    range,            \* useState range
    loading,          \* useState loading
    error,            \* useState error
    data,             \* useState data: the displayed price series
    suggestions,      \* useState suggestions
    spikes,           \* useState spikes: the detected-spike list
    hoveredSpike,     \* useState hoveredSpike: the selection, or NULL
    popoverPosition,  \* useState popoverPosition: the anchor, or NULL
    newsCache,        \* newsCacheRef.current: date -> text
    stockInFlight,    \* bag of the series requests awaiting their response
    newsInFlight,     \* bag of the news requests awaiting their response
    seriesIssued,     \* history: series requests issued so far
    newsRequested,    \* history: the dates a news request was issued for
    shownFor,         \* history: the request whose response was applied last
    routeCall,        \* the request a route handler is run on, with what its
                      \* collaborators answer, or NULL
    routeAnswer       \* what the handler returns for routeCall, or NULL

\* the state of the component
pageVars == <<symbol, searchTerm, range, loading, error, data, suggestions,
              spikes, hoveredSpike, popoverPosition, newsCache, stockInFlight,
              newsInFlight, seriesIssued, newsRequested, shownFor>>

\* the run of a route handler
routeVars == <<routeCall, routeAnswer>>

vars == <<symbol, searchTerm, range, loading, error, data, suggestions, spikes,
          hoveredSpike, popoverPosition, newsCache, stockInFlight,
          newsInFlight, seriesIssued, newsRequested, shownFor, routeCall,
          routeAnswer>>

StockRequest(sym, rng) == [symbol |-> sym, range |-> rng]

\* the closure of one fetchNewsForSpike call: the spike's date and kind, and
\* the symbol the callback was built with
NewsRequest(spike, sym) ==
    [date |-> spike.date, kind |-> spike.kind, symbol |-> sym]

EmptyCache == [d \in {} |-> NULL]

CacheGet(cache, date) == IF date \in DOMAIN cache THEN cache[date] ELSE UNDEFINED

CachePut(cache, date, text) ==
    [d \in DOMAIN cache \cup {date} |-> IF d = date THEN text ELSE cache[d]]

\* series of closes the detector is run on, dated 1..n
MaxSeriesLen == 10

\* closes that make a peak of exactly 2% (102 over 100), a valley under 2%
\* (100 under 102) and neighbours of mean 0
CloseValues == {0, 100, 102}

SeriesLengths == 0..MaxSeriesLen

\* strictly monotonic series: a start, a direction and a step per point; with
\* large steps on one side and small ones on the other a point stands more
\* than 2% away from the mean of its neighbours
MonotoneStart == 10000

MonotoneSteps == {1, 500}

RECURSIVE MonotoneCloses(_, _, _)
MonotoneCloses(n, dir, steps) ==
    IF n = 0 THEN <<>>
    ELSE IF n = 1 THEN <<MonotoneStart>>
    ELSE LET before == MonotoneCloses(n - 1, dir, steps)
         IN  Append(before, before[n - 1] + dir * steps[n - 1])

\* 9-point series, flat at a baseline except the 5th point
Baselines == {50, 100}

Deviations == -10..10

FlatCloses(b, dev) == [k \in 1..9 |-> IF k = 5 THEN b + dev ELSE b]

\* the series with the closes c, dated 1..Len(c)
SeriesOfCloses(c) == [k \in 1..Len(c) |-> [date |-> k, close |-> c[k]]]

\* Boolean(v)
Truthy(v) == v \notin {UNDEFINED, NULL, EmptyText}

\* v ?? null
OrNull(v) == IF v \in {UNDEFINED, NULL} THEN NULL ELSE v

\* useState initial values, followed by the mount run of useEffect(symbol, range)
Init ==
    /\ symbol = DEFAULT_SYMBOL
    /\ searchTerm = DEFAULT_SYMBOL
    /\ range = DEFAULT_RANGE
    /\ loading = TRUE
    /\ error = ""
    /\ data = <<>>
    /\ suggestions = <<>>
    /\ spikes = <<>>
    /\ hoveredSpike = NULL
    /\ popoverPosition = NULL
    /\ newsCache = EmptyCache
    /\ stockInFlight = SetToBag({StockRequest(DEFAULT_SYMBOL, DEFAULT_RANGE)})
    /\ newsInFlight = EmptyBag
    /\ seriesIssued = 1
    /\ newsRequested = {}
    /\ shownFor = NULL
    /\ routeCall = NULL
    /\ routeAnswer = NULL

----------------------------------------------------------------------------
(* Effects *)

\* an effect that enriches detected spikes only
NewsEffectDetectedOnly(selection, sym) ==
    IF selection # NULL /\ ~selection.newsLoaded /\ selection.kind # "point"
    THEN {NewsRequest(selection, sym)}
    ELSE {}

\* useEffect(hoveredSpike, fetchNewsForSpike) with the early return of
\* fetchNewsForSpike: the requests a run of the effect issues
NewsEffect(selection, sym) ==
    IF selection # NULL /\ ~selection.newsLoaded
    THEN {NewsRequest(selection, sym)}
    ELSE {}

IssueNews(requests) ==
    /\ BagCardinality(newsInFlight) + Cardinality(requests) <= MaxNewsInFlight
    /\ newsInFlight' = newsInFlight (+) SetToBag(requests)
    /\ newsRequested' = newsRequested \cup {r.date : r \in requests}

\* useEffect(symbol, range) running fetchStockData up to its await
FetchStockStart(sym, rng) ==
    /\ BagCardinality(stockInFlight) < MaxStockInFlight
    /\ seriesIssued < MaxSeriesRequests
    /\ seriesIssued' = seriesIssued + 1
    /\ loading' = TRUE
    /\ error' = ""
    /\ suggestions' = <<>>
    /\ stockInFlight' = stockInFlight (+) SetToBag({StockRequest(sym, rng)})

----------------------------------------------------------------------------
(* Ticker and range controls *)

SetSearchTerm(typed) ==
    /\ searchTerm' = ToUpperCase(typed)
    /\ UNCHANGED <<symbol, range, loading, error, data, suggestions, spikes,
                   hoveredSpike, popoverPosition, newsCache, stockInFlight,
                   newsInFlight, seriesIssued, newsRequested, shownFor,
                   routeCall, routeAnswer>>

\* setSearchTerm, setSymbol, setError(""), setSuggestions([]) and the effects
\* that depend on symbol
SelectSymbol(sym) ==
    /\ searchTerm' = sym
    /\ symbol' = sym
    /\ IF sym # symbol
       THEN /\ FetchStockStart(sym, range)
            /\ IssueNews(NewsEffect(hoveredSpike, sym))
       ELSE /\ error' = ""
            /\ suggestions' = <<>>
            /\ UNCHANGED <<loading, stockInFlight, newsInFlight, seriesIssued,
                           newsRequested>>
    /\ UNCHANGED <<range, data, spikes, hoveredSpike, popoverPosition,
                   newsCache, shownFor,
                   routeCall, routeAnswer>>

handleSearch ==
    LET cleaned == ToUpperCase(Trim(searchTerm))
    IN  IF cleaned = ""
        THEN /\ error' = ValidationMessage
             /\ UNCHANGED <<symbol, searchTerm, range, loading, data,
                            suggestions, spikes, hoveredSpike, popoverPosition,
                            newsCache, stockInFlight, newsInFlight,
                            seriesIssued, newsRequested, shownFor,
                   routeCall, routeAnswer>>
        ELSE SelectSymbol(cleaned)

\* the search button, disabled while loading
SearchButton ==
    /\ ~loading
    /\ handleSearch

\* handleKeyPress: Enter in the ticker field
EnterKey == handleSearch

\* a suggestion button, rendered under the error message
SuggestionClick(item) ==
    /\ error # ""
    /\ \E n \in 1..Len(suggestions) : suggestions[n] = item
    /\ SelectSymbol(item)

\* a range button, disabled while loading unless it is the active one
RangeButton(option) ==
    /\ ~(loading /\ option # range)
    /\ range' = option
    /\ IF option # range
       THEN FetchStockStart(symbol, option)
       ELSE UNCHANGED <<loading, error, suggestions, stockInFlight, seriesIssued>>
    /\ UNCHANGED <<symbol, searchTerm, data, spikes, hoveredSpike,
                   popoverPosition, newsCache, newsInFlight, newsRequested,
                   shownFor,
                   routeCall, routeAnswer>>

----------------------------------------------------------------------------
(* Completion of a series request *)

HttpError(status, message, sugg) ==
    [thrown |-> FALSE, ok |-> FALSE, status |-> status, message |-> message,
     success |-> FALSE, suggestions |-> sugg, data |-> <<>>]

\* what the stocks route, or the network, can answer to a request
StockResponses(req) ==
    { [thrown |-> FALSE, ok |-> TRUE, status |-> 200, message |-> "",
       success |-> TRUE, suggestions |-> <<>>,
       data |-> ProviderSeries(req.symbol, req.range)],
      [thrown |-> FALSE, ok |-> TRUE, status |-> 200, message |-> "",
       success |-> FALSE, suggestions |-> <<>>, data |-> <<>>],
      HttpError(404, NotFoundMessage(req.symbol), SuggestionsFor(req.symbol)),
      HttpError(429, "Demasiadas solicitudes.", <<>>),
      [thrown |-> TRUE, ok |-> FALSE, status |-> 0, message |-> "Failed to fetch",
       success |-> FALSE, suggestions |-> <<>>, data |-> <<>>] }

\* the message of the non-OK branch
HttpErrorMessage(resp) ==
    IF resp.status = 429 THEN RateLimitMessage
    ELSE IF resp.status = 503 THEN UnavailableMessage
    ELSE IF resp.status = 504 THEN TimeoutMessage
    ELSE IF resp.message # "" THEN resp.message
    ELSE DefaultApiError

\* the message of the catch branch
CaughtMessage(message) == IF message # "" THEN message ELSE UnexpectedMessage

\* fetchStockData from the completion of its await to the end of finally,
\* with the detection pass that setData triggers
FetchStockDone(req, resp) ==
    /\ BagIn(req, stockInFlight)
    /\ stockInFlight' = stockInFlight (-) SetToBag({req})
    /\ loading' = FALSE
    /\ shownFor' = req
    /\ IF resp.thrown
       THEN /\ error' = CaughtMessage(resp.message)
            /\ data' = <<>>
            /\ suggestions' = <<>>
            /\ spikes' = <<>>
       ELSE IF ~resp.ok
       THEN /\ error' = HttpErrorMessage(resp)
            /\ suggestions' = resp.suggestions
            /\ data' = <<>>
            /\ spikes' = <<>>
       ELSE IF ~resp.success
       THEN /\ error' = CaughtMessage(UnsuccessfulMessage)
            /\ data' = <<>>
            /\ suggestions' = <<>>
            /\ spikes' = <<>>
       ELSE /\ data' = resp.data
            /\ suggestions' = <<>>
            /\ spikes' = SpikesEffect(resp.data)
            /\ UNCHANGED error
    /\ UNCHANGED <<symbol, searchTerm, range, hoveredSpike, popoverPosition,
                   newsCache, newsInFlight, seriesIssued, newsRequested,
                   routeCall, routeAnswer>>

StockResponse ==
    \E req \in BagToSet(stockInFlight) :
        \E resp \in StockResponses(req) : FetchStockDone(req, resp)

----------------------------------------------------------------------------
(* Chart click *)

Min(a, b) == IF a < b THEN a ELSE b

Max(a, b) == IF a > b THEN a ELSE b

\* Screen coordinates are kept in half pixels, so that
\* effectivePopoverWidth / 2 is exact for every viewport width.
\* rect.left + targetElement.x and rect.top + targetElement.y as the chart
\* lays the points out: one column per index, the height by the close
RawX(k) == 2 * (40 + 120 * k)

RawY(close) == 2 * (400 - close)

\* a clamp that takes the popover at its full width in every viewport
ClampXFullWidth(rawX, viewportWidth) ==
    LET minX == 2 * HORIZONTAL_PADDING + POPOVER_WIDTH
        maxX == IF viewportWidth # 0
                THEN 2 * viewportWidth - 2 * HORIZONTAL_PADDING - POPOVER_WIDTH
                ELSE rawX
    IN  IF viewportWidth # 0 THEN Min(Max(rawX, minX), maxX) ELSE rawX

\* clampedX for a raw x and window.innerWidth (0: no window)
ClampX(rawX, viewportWidth) ==
    LET effectivePopoverWidth ==
            IF viewportWidth # 0
            THEN Min(POPOVER_WIDTH, viewportWidth - HORIZONTAL_PADDING * 2)
            ELSE POPOVER_WIDTH
        minX == 2 * HORIZONTAL_PADDING + effectivePopoverWidth
        maxX == IF viewportWidth # 0
                THEN 2 * viewportWidth - 2 * HORIZONTAL_PADDING - effectivePopoverWidth
                ELSE rawX
    IN  IF viewportWidth # 0 THEN Min(Max(rawX, minX), maxX) ELSE rawX

\* the elements argument of onClick: none, or the element under the cursor
ClickElements ==
    {<<>>}
        \cup {<<[index |-> k]>> : k \in ClickIndices}
        \cup {<<[index |-> k, datasetIndex |-> d]>> : k \in ClickIndices, d \in {0, 1}}

\* datasetIndex ?? 0
DatasetIndexOf(element) ==
    IF "datasetIndex" \in DOMAIN element THEN element.datasetIndex ELSE 0

\* spikes.find((s) => s.index === clickedIndex): positions of the matches
SpikesAtIndex(k) == {n \in 1..Len(spikes) : spikes[n].index = k}

FirstOf(positions) == CHOOSE n \in positions : \A m \in positions : n <= m

\* a nextSpike that is always synthesized
NextSpikeAlwaysPoint(k) ==
    LET pointData == At(data, k)
        cachedSummary == CacheGet(newsCache, pointData.date)
    IN  [date |-> pointData.date,
         index |-> k,
         close |-> pointData.close,
         changePercent |-> ChangePercent(data, k),
         newsLoaded |-> Truthy(cachedSummary),
         newsSummary |-> OrNull(cachedSummary),
         kind |-> "point"]

\* a nextSpike that takes from the cache only a text obtained for the ticker
\* of the page
NextSpikeOwnTicker(k) ==
    LET pointData == At(data, k)
        cached == CacheGet(newsCache, pointData.date)
        cachedSummary ==
            IF "query" \in DOMAIN cached /\ cached.query # symbol
            THEN UNDEFINED ELSE cached
    IN  IF SpikesAtIndex(k) # {}
        THEN spikes[FirstOf(SpikesAtIndex(k))]
        ELSE [date |-> pointData.date,
              index |-> k,
              close |-> pointData.close,
              changePercent |-> ChangePercent(data, k),
              newsLoaded |-> Truthy(cachedSummary),
              newsSummary |-> OrNull(cachedSummary),
              kind |-> "point"]

\* nextSpike of onClick for a point of the series
NextSpike(k) ==
    LET pointData == At(data, k)
        cachedSummary == CacheGet(newsCache, pointData.date)
    IN  IF SpikesAtIndex(k) # {}
        THEN spikes[FirstOf(SpikesAtIndex(k))]
        ELSE [date |-> pointData.date,
              index |-> k,
              close |-> pointData.close,
              changePercent |-> ChangePercent(data, k),
              newsLoaded |-> Truthy(cachedSummary),
              newsSummary |-> OrNull(cachedSummary),
              kind |-> "point"]

\* an onClick that takes the element of the click for rendered
TargetElementAssumed(k, element, rendered) == TRUE

\* whether onClick finds a rendered element for the index: in the preferred
\* dataset, or else in dataset 0; rendered is the set of datasets whose meta
\* holds an element at the index
TargetElementFound(k, element, rendered) ==
    LET preferredDatasetIndex ==
            IF SpikesAtIndex(k) # {} THEN 1 ELSE DatasetIndexOf(element)
    IN  \/ preferredDatasetIndex \in rendered
        \/ preferredDatasetIndex # 0 /\ 0 \in rendered

\* a dismissal that forgets the anchor
ClearSpikeOnly ==
    /\ hoveredSpike' = NULL
    /\ UNCHANGED popoverPosition

ClearSelection ==
    /\ hoveredSpike' = NULL
    /\ popoverPosition' = NULL

\* chartOptions.onClick; the chart is rendered when not loading and the series
\* is not empty.  ready: chartRef.current is set
ChartClick(ready, elements, rendered, viewportWidth) ==
    /\ ~loading
    /\ Len(data) > 0
    /\ IF ~ready
       THEN UNCHANGED vars
       ELSE IF Len(elements) = 0
       THEN /\ ClearSelection
            /\ UNCHANGED <<symbol, searchTerm, range, loading, error, data,
                           suggestions, spikes, newsCache, stockInFlight,
                           newsInFlight, seriesIssued, newsRequested, shownFor,
                   routeCall, routeAnswer>>
       ELSE IF ~InRange(data, elements[1].index)
       THEN UNCHANGED vars
       ELSE IF ~TargetElementFound(elements[1].index, elements[1], rendered)
       THEN UNCHANGED vars
       ELSE LET k == elements[1].index
            IN  /\ popoverPosition' =
                       [x |-> ClampX(RawX(k), viewportWidth),
                        y |-> RawY(At(data, k).close)]
                /\ hoveredSpike' = NextSpike(k)
                /\ IssueNews(NewsEffect(NextSpike(k), symbol))
                /\ UNCHANGED <<symbol, searchTerm, range, loading, error, data,
                               suggestions, spikes, newsCache, stockInFlight,
                               seriesIssued, shownFor,
                   routeCall, routeAnswer>>

\* spike-popover-overlay onClick; the popover is rendered when both are set
OverlayClick ==
    /\ hoveredSpike # NULL
    /\ popoverPosition # NULL
    /\ ClearSelection
    /\ UNCHANGED <<symbol, searchTerm, range, loading, error, data, suggestions,
                   spikes, newsCache, stockInFlight, newsInFlight,
                   seriesIssued, newsRequested, shownFor,
                   routeCall, routeAnswer>>

\* spike-popover-close onClick
CloseButton ==
    /\ hoveredSpike # NULL
    /\ popoverPosition # NULL
    /\ ClearSelection
    /\ UNCHANGED <<symbol, searchTerm, range, loading, error, data, suggestions,
                   spikes, newsCache, stockInFlight, newsInFlight,
                   seriesIssued, newsRequested, shownFor,
                   routeCall, routeAnswer>>

----------------------------------------------------------------------------
(* Completion of a news request *)

\* summary: payload.summary is a text; empty: it is ""; missing: the payload
\* has no summary; not_ok: response.ok is false; throw: fetch or json() threw
NewsOutcomes == {"summary", "empty", "missing", "not_ok", "throw"}

PayloadSummary(req, outcome) ==
    IF outcome = "summary" THEN SummaryOf(req.symbol, req.date)
    ELSE IF outcome = "empty" THEN EmptyText
    ELSE UNDEFINED

\* a text that is the summary of the payload as it came
NewsTextAsReceived(req, outcome) ==
    IF outcome = "throw" THEN ErrorMessage
    ELSE IF outcome = "not_ok" THEN FallbackMessage
    ELSE IF outcome = "missing" THEN NoSummaryText
    ELSE PayloadSummary(req, outcome)

\* the text fetchNewsForSpike ends with
NewsText(req, outcome) ==
    IF outcome = "throw" THEN ErrorMessage
    ELSE IF outcome = "not_ok" THEN FallbackMessage
    ELSE IF Truthy(PayloadSummary(req, outcome)) THEN PayloadSummary(req, outcome)
    ELSE NoSummaryText

\* a list that takes a text only from an answer that was OK
MarkSpikesOkOnly(prev, req, text) ==
    IF req.kind # "point" /\ text \notin {FallbackMessage, ErrorMessage}
    THEN [n \in 1..Len(prev) |->
             IF prev[n].date = req.date
             THEN [prev[n] EXCEPT !.newsLoaded = TRUE, !.newsSummary = text]
             ELSE prev[n]]
    ELSE prev

\* setSpikes((prev) => prev.map(...)) of the three branches
MarkSpikes(prev, req, text) ==
    IF req.kind # "point"
    THEN [n \in 1..Len(prev) |->
             IF prev[n].date = req.date
             THEN [prev[n] EXCEPT !.newsLoaded = TRUE, !.newsSummary = text]
             ELSE prev[n]]
    ELSE prev

\* an update of the selection that does not compare the dates
MarkSelectionAnyDate(prev, req, text) ==
    IF prev # NULL
    THEN [prev EXCEPT !.newsLoaded = TRUE, !.newsSummary = text]
    ELSE prev

\* an update of the selection that a failure does not make
MarkSelectionSummaryOnly(prev, req, text) ==
    IF prev # NULL /\ prev.date = req.date /\ text \notin {FallbackMessage, ErrorMessage}
    THEN [prev EXCEPT !.newsLoaded = TRUE, !.newsSummary = text]
    ELSE prev

\* an update of the selection that closes a popover showing another date
MarkSelectionDismisses(prev, req, text) ==
    IF prev # NULL /\ prev.date = req.date
    THEN [prev EXCEPT !.newsLoaded = TRUE, !.newsSummary = text]
    ELSE NULL

\* setHoveredSpike((prev) => ...) of the three branches
MarkSelection(prev, req, text) ==
    IF prev # NULL /\ prev.date = req.date
    THEN [prev EXCEPT !.newsLoaded = TRUE, !.newsSummary = text]
    ELSE prev

\* a cache that keeps the latest text only
CacheOfLatestOnly(cache, req, outcome) ==
    IF outcome = "throw" THEN cache
    ELSE CachePut(EmptyCache, req.date, NewsText(req, outcome))

\* newsCacheRef.current[spike.date] = ...: the catch branch writes nothing
CacheAfterNews(cache, req, outcome) ==
    IF outcome = "throw" THEN cache
    ELSE CachePut(cache, req.date, NewsText(req, outcome))

\* fetchNewsForSpike from the completion of its await to its end
FetchNewsDone(req, outcome) ==
    /\ BagIn(req, newsInFlight)
    /\ newsInFlight' = newsInFlight (-) SetToBag({req})
    /\ spikes' = MarkSpikes(spikes, req, NewsText(req, outcome))
    /\ newsCache' = CacheAfterNews(newsCache, req, outcome)
    /\ hoveredSpike' = MarkSelection(hoveredSpike, req, NewsText(req, outcome))
    /\ UNCHANGED <<symbol, searchTerm, range, loading, error, data, suggestions,
                   popoverPosition, stockInFlight, seriesIssued, newsRequested,
                   shownFor,
                   routeCall, routeAnswer>>

NewsResponse ==
    \E req \in BagToSet(newsInFlight) :
        \E outcome \in NewsOutcomes : FetchNewsDone(req, outcome)

----------------------------------------------------------------------------

Next ==
    \/ \E typed \in TypedInputs : SetSearchTerm(typed)
    \/ SearchButton
    \/ EnterKey
    \/ \E item \in Tickers : SuggestionClick(item)
    \/ \E option \in RangeClicks : RangeButton(option)
    \/ StockResponse
    \/ \E ready \in BOOLEAN, elements \in ClickElements,
          rendered \in SUBSET {0, 1}, viewportWidth \in ViewportWidths :
          ChartClick(ready, elements, rendered, viewportWidth)
    \/ OverlayClick
    \/ CloseButton
    \/ NewsResponse

Spec == Init /\ [][Next]_vars

\* every issued news request eventually completes or fails
LiveSpec == Init /\ [][Next]_vars /\ WF_vars(NewsResponse)

----------------------------------------------------------------------------
(* The detector alone: a series is drawn, then the detection pass runs *)

\* the mount request is in flight
DetInit == Init

\* a successful answer carrying the rows of any series
OkResponse(rows) ==
    [thrown |-> FALSE, ok |-> TRUE, status |-> 200, message |-> "",
     success |-> TRUE, suggestions |-> <<>>, data |-> rows]

\* the answer to the mount request arrives: setData, then
\* useEffect(data, detectSpikes)
DetectPass ==
    \E req \in BagToSet(stockInFlight) :
        \E n \in SeriesLengths :
            \/ \E c \in [1..n -> CloseValues] :
                   FetchStockDone(req, OkResponse(SeriesOfCloses(c)))
            \/ \E dir \in {-1, 1} :
                   \E steps \in [1..(IF n = 0 THEN 0 ELSE n - 1) -> MonotoneSteps] :
                       FetchStockDone(req,
                           OkResponse(SeriesOfCloses(MonotoneCloses(n, dir, steps))))
            \/ \E b \in Baselines, dev \in Deviations :
                   /\ n = 9
                   /\ FetchStockDone(req, OkResponse(SeriesOfCloses(FlatCloses(b, dev))))

DetNext == DetectPass

DetSpec == DetInit /\ [][DetNext]_vars

----------------------------------------------------------------------------
(* The click handler alone: the mount request is answered with one of a few *)
(* series, then any point is clicked in any viewport                        *)

\* closes with a first point, a point after a close of 0 and a peak after a
\* close of 0, beside the histories of the two tickers
ClickCloses ==
    {<<0, 10, 10, 0, 100, 10, 10, 10, 10, 10>>,
     HistoryClose("YPF"), HistoryClose("AAPL")}

WideClickIndices == 0..9

\* no window, narrower than the two margins, exactly the two margins, narrower
\* than the popover, exactly the popover and its margins, wide
WideViewportWidths == {0, 20, 32, 200, 392, 1280}

ClickInit == Init

ClickSeriesResponse ==
    \E req \in BagToSet(stockInFlight), c \in ClickCloses :
        FetchStockDone(req, OkResponse(SeriesOfCloses(c)))

WideChartClick ==
    \E k \in WideClickIndices, rendered \in {{0}, {0, 1}},
       viewportWidth \in WideViewportWidths :
        ChartClick(TRUE, <<[index |-> k]>>, rendered, viewportWidth)

ClickNext ==
    \/ ClickSeriesResponse
    \/ WideChartClick
    \/ OverlayClick
    \/ CloseButton

ClickSpec == ClickInit /\ [][ClickNext]_vars

----------------------------------------------------------------------------
(* The stocks route: GET /api?symbol=..&range=.. *)

\* rows of a provider payload in the short input families
MaxRows == 4

\* Times are kept in a scaled unit: a second is MsPerSecond units of a Date's
\* time value and a UTC day is MsPerDay of them, so that several instants fall
\* on one calendar day.
MsPerSecond == 2
MsPerDay == 4

\* searchParams.get(name): null, or the string of a parameter that is present
Param(s) == [value |-> s]

\* a number as a field of a provider row (a field is a number, null or
\* undefined)
Num(n) == [num |-> n]

\* a ?? b, for a field a and a number b
Coalesce(a, b) == IF a \in {UNDEFINED, NULL} THEN b ELSE a.num

\* a ?? b, for two fields
CoalesceField(a, b) == IF a \in {UNDEFINED, NULL} THEN b ELSE a

\* entry.date of a provider row: a Date instance or a number of seconds
DateObject(t) == [time |-> t]

DateNumber(s) == [seconds |-> s]

\* entry && entry.date: an absent date and the number 0 are falsy, a Date
\* instance never is
HasDate(entry) ==
    /\ entry.date \notin {UNDEFINED, NULL}
    /\ entry.date # DateNumber(0)

\* entry.date instanceof Date ? entry.date : new Date(entry.date * 1000),
\* as the time value of the Date
DateValue(d) ==
    IF "time" \in DOMAIN d THEN d.time ELSE d.seconds * MsPerSecond

\* toISOString().split("T")[0]: the calendar day of a time value as a string
\* of fixed width, most significant digit first
IsoDate(t) ==
    LET day == t \div MsPerDay
    IN  <<day \div 100, (day \div 10) % 10, day % 10>>

\* a.localeCompare(b) for two strings of digits of the same length, compared
\* from position i on
RECURSIVE CompareFrom(_, _, _)
CompareFrom(a, b, i) ==
    IF i > Len(a) THEN 0
    ELSE IF a[i] < b[i] THEN -1
    ELSE IF a[i] > b[i] THEN 1
    ELSE CompareFrom(a, b, i + 1)

LocaleCompare(a, b) == CompareFrom(a, b, 1)

\* one element of quotes.filter(...).map(...)
QuotePointAdjFromZero(entry) ==
    [date |-> IsoDate(DateValue(entry.date)),
     open |-> Coalesce(entry.open, 0),
     high |-> Coalesce(entry.high, 0),
     low |-> Coalesce(entry.low, 0),
     close |-> Coalesce(entry.close, 0),
     adjustedClose |->
         Coalesce(CoalesceField(entry.adjclose, entry.adjClose), 0),
     volume |-> Coalesce(entry.volume, 0)]

QuotePoint(entry) ==
    [date |-> IsoDate(DateValue(entry.date)),
     open |-> Coalesce(entry.open, 0),
     high |-> Coalesce(entry.high, 0),
     low |-> Coalesce(entry.low, 0),
     close |-> Coalesce(entry.close, 0),
     adjustedClose |->
         Coalesce(CoalesceField(CoalesceField(entry.adjclose, entry.adjClose),
                                entry.close), 0),
     volume |-> Coalesce(entry.volume, 0)]

\* quotes.filter((entry) => entry && entry.date).map(...)
ParseQuotes(quotes) ==
    LET kept == SelectSeq(quotes, HasDate)
    IN  [i \in 1..Len(kept) |-> QuotePoint(kept[i])]

\* an array as a field of the provider payload
Array(elements) == [array |-> elements]

\* column?.[index], for a column that is undefined or an array; reading past
\* the end of an array gives undefined
Column(column, index) ==
    IF column = UNDEFINED THEN UNDEFINED
    ELSE IF InRange(column.array, index) THEN At(column.array, index)
    ELSE UNDEFINED

\* adjCloseData?.adjclose?.[index]
AdjColumn(adjCloseData, index) ==
    IF adjCloseData = UNDEFINED THEN UNDEFINED
    ELSE Column(adjCloseData.adjclose, index)

\* one element of timestamps.map(...)
TimestampPoint(timestamp, index, quoteData, adjCloseData) ==
    LET close == Column(quoteData.close, index)
        adjustedClose == CoalesceField(AdjColumn(adjCloseData, index), close)
    IN  [date |-> IsoDate(timestamp * MsPerSecond),
         open |-> Coalesce(Column(quoteData.open, index), 0),
         high |-> Coalesce(Column(quoteData.high, index), 0),
         low |-> Coalesce(Column(quoteData.low, index), 0),
         close |-> Coalesce(close, 0),
         adjustedClose |-> Coalesce(adjustedClose, 0),
         volume |-> Coalesce(Column(quoteData.volume, index), 0)]

\* the normalization of a chart result into parsed
Parsed(result) ==
    IF Len(result.quotes) > 0 THEN ParseQuotes(result.quotes)
    ELSE IF Len(result.timestamp) > 0 /\ result.quoteData # UNDEFINED
    THEN [k \in 1..Len(result.timestamp) |->
             TimestampPoint(result.timestamp[k], k - 1, result.quoteData,
                            result.adjCloseData)]
    ELSE <<>>

\* parsed.sort((a, b) => a.date.localeCompare(b.date)). Array.prototype.sort
\* is stable: an element is placed behind the elements that compare less
\* and behind the elements that compare equal and come before it in the array.
KeepProviderOrder(points) == points

SortByDate(points) ==
    LET n == Len(points)
        place == <<>> \o [i \in 1..n |->
                     1 + Cardinality({j \in 1..n :
                             LET c == LocaleCompare(points[j].date,
                                                    points[i].date)
                             IN  c < 0 \/ (c = 0 /\ j < i)})]
        from == <<>> \o [k \in 1..n |-> CHOOSE i \in 1..n : place[i] = k]
    IN  [k \in 1..n |-> points[from[k]]]

\* periodMap
PeriodDays(r) ==
    CASE r = "1M" -> 22
      [] r = "3M" -> 66
      [] r = "6M" -> 132
      [] r = "1Y" -> 264

\* array.slice(-days), for days > 0
SliceHead(points, days) == SubSeq(points, 1, Min(days, Len(points)))

SliceLast(points, days) ==
    SubSeq(points, Max(0, Len(points) - days) + 1, Len(points))

\* filtered
Filtered(points, r) ==
    IF r # "MAX" THEN SliceLast(points, PeriodDays(r)) ELSE points

\* searchParams.get("range")?.toUpperCase() ?? "3M"
RangeParam(r) == IF r = NULL THEN "3M" ELSE ToUpperCase(r.value)

\* error.message?.includes(part), for the messages the provider throws
Includes(message, part) ==
    \/ part = "No data found"
       /\ message = "No data found, symbol may be delisted"
    \/ part = "Not Found" /\ message = "HTTPError: Not Found"
    \/ part = "Too Many Requests" /\ message = "Too Many Requests"

\* searchSymbols: at most five of the quotes of the search, [] when the
\* search throws
SearchSymbolsAll(found) ==
    IF found.thrown THEN <<>> ELSE found.quotes

SearchSymbols(found) ==
    IF found.thrown THEN <<>>
    ELSE SubSeq(found.quotes, 1, Min(5, Len(found.quotes)))

\* a NextResponse.json of the route with the provider calls made for it
RouteError(status, title, sugg, calls) ==
    [status |-> status, error |-> title, success |-> FALSE,
     suggestions |-> sugg, data |-> <<>>, calls |-> calls]

\* lastUpdated of the metadata block
LastUpdated(meta) == IF meta.thrown THEN NULL ELSE meta.regularMarketTime

\* the catch block of GET
Caught(err, found) ==
    IF Includes(err.message, "No data found")
       \/ Includes(err.message, "Not Found")
    THEN RouteError(404, "Not Found", SearchSymbols(found),
                    <<"chart", "search">>)
    ELSE IF Includes(err.message, "Too Many Requests")
            \/ err.code = "ETIMEDOUT"
    THEN RouteError(429, "Too Many Requests", <<>>, <<"chart">>)
    ELSE IF err.code = "ECONNABORTED" \/ err.code = "ETIMEDOUT"
    THEN RouteError(504, "Gateway Timeout", <<>>, <<"chart">>)
    ELSE RouteError(500, "Internal Server Error", <<>>, <<"chart">>)

\* !symbol
MissingSymbol(sym) == sym = NULL \/ sym.value = ""

\* GET of the stocks route, for a request and the outcomes of the provider
\* calls it may make (chart, search, quote)
StocksAnswer(call) ==
    IF MissingSymbol(call.symbol)
    THEN RouteError(400, "Bad Request", <<>>, <<>>)
    ELSE IF call.chart.thrown THEN Caught(call.chart, call.search)
    ELSE LET parsed == Parsed(call.chart)
         IN  IF Len(parsed) = 0
             THEN RouteError(404, "Not Found", SearchSymbols(call.search),
                             <<"chart", "search">>)
             ELSE [status |-> 200, error |-> "", success |-> TRUE,
                   suggestions |-> <<>>,
                   data |-> Filtered(SortByDate(parsed),
                                     RangeParam(call.range)),
                   range |-> RangeParam(call.range),
                   lastUpdated |-> LastUpdated(call.meta),
                   calls |-> <<"chart", "quote">>]

\* Requests to the stocks route and what the provider answers to them

SearchOutcomes ==
    { [thrown |-> TRUE, quotes |-> <<>>],
      [thrown |-> FALSE, quotes |-> <<>>],
      [thrown |-> FALSE, quotes |-> <<"YPF", "YPFD.BA">>],
      [thrown |-> FALSE,
       quotes |-> <<"AAPL", "AAPL.BA", "APLE", "AAP", "AAPD", "AAPU">>] }

MetaOutcomes ==
    { [thrown |-> TRUE, regularMarketTime |-> NULL],
      [thrown |-> FALSE, regularMarketTime |-> DateObject(40)] }

ChartErrors ==
    { [thrown |-> TRUE, message |-> "No data found, symbol may be delisted",
       code |-> ""],
      [thrown |-> TRUE, message |-> "HTTPError: Not Found", code |-> ""],
      [thrown |-> TRUE, message |-> "Too Many Requests", code |-> ""],
      [thrown |-> TRUE, message |-> "connect ETIMEDOUT", code |-> "ETIMEDOUT"],
      [thrown |-> TRUE, message |-> "timeout exceeded",
       code |-> "ECONNABORTED"],
      [thrown |-> TRUE, message |-> "socket hang up", code |-> "ECONNRESET"] }

ChartResult(quotes, timestamp, quoteData, adjCloseData) ==
    [thrown |-> FALSE, quotes |-> quotes, timestamp |-> timestamp,
     quoteData |-> quoteData, adjCloseData |-> adjCloseData]

SymbolParams == {NULL, Param(""), Param(" "), Param("ypf"), Param("AAPL")}

RangeParams ==
    {NULL, Param("1M"), Param("3M"), Param("6M"), Param("1Y"), Param("MAX"),
     Param("max")}

\* the dates of the rows: absent, the number 0, and instants of the calendar
\* days 0, 1 (three of them) and 2
RowDates ==
    {UNDEFINED, DateNumber(0), DateObject(2), DateNumber(3), DateObject(4),
     DateObject(5), DateObject(9)}

\* the numeric fields of the i-th row, all present
Numbered(i) ==
    [open |-> Num(10 + i), high |-> Num(20 + i), low |-> Num(5 + i),
     close |-> Num(100 + i), volume |-> Num(1000 + i),
     adjclose |-> Num(90 + i), adjClose |-> UNDEFINED]

\* rows that lack some of the numeric fields
FieldShapes ==
    { Numbered(1),
      [open |-> UNDEFINED, high |-> UNDEFINED, low |-> UNDEFINED,
       close |-> UNDEFINED, volume |-> UNDEFINED, adjclose |-> UNDEFINED,
       adjClose |-> UNDEFINED],
      [open |-> NULL, high |-> NULL, low |-> NULL, close |-> NULL,
       volume |-> NULL, adjclose |-> NULL, adjClose |-> NULL],
      [open |-> NULL, high |-> Num(21), low |-> UNDEFINED, close |-> Num(101),
       volume |-> NULL, adjclose |-> UNDEFINED, adjClose |-> NULL],
      [open |-> Num(11), high |-> NULL, low |-> Num(6), close |-> Num(101),
       volume |-> Num(1001), adjclose |-> NULL, adjClose |-> Num(95)],
      [open |-> Num(11), high |-> Num(21), low |-> Num(6), close |-> Num(101),
       volume |-> UNDEFINED, adjclose |-> Num(0), adjClose |-> Num(95)],
      [open |-> Num(11), high |-> Num(21), low |-> Num(6), close |-> NULL,
       volume |-> Num(0), adjclose |-> UNDEFINED, adjClose |-> UNDEFINED] }

EntryOf(date, fields) ==
    [date |-> date, open |-> fields.open, high |-> fields.high,
     low |-> fields.low, close |-> fields.close, volume |-> fields.volume,
     adjclose |-> fields.adjclose, adjClose |-> fields.adjClose]

\* the columns of indicators.quote[0] and indicators.adjclose[0]
QuoteDatas ==
    { UNDEFINED,
      [open |-> Array(<<Num(11), Num(12), Num(13)>>),
       high |-> Array(<<Num(21), Num(22), Num(23)>>),
       low |-> Array(<<Num(6), Num(7), Num(8)>>),
       close |-> Array(<<Num(101), Num(102), Num(103)>>),
       volume |-> Array(<<Num(1001), Num(1002), Num(1003)>>)],
      [open |-> UNDEFINED,
       high |-> Array(<<NULL, Num(22)>>),
       low |-> Array(<<>>),
       close |-> Array(<<Num(101), NULL>>),
       volume |-> Array(<<Num(1001), NULL, NULL>>)] }

AdjCloseDatas ==
    { UNDEFINED,
      [adjclose |-> UNDEFINED],
      [adjclose |-> Array(<<NULL, Num(92)>>)] }

TimestampValues == {1, 2, 3, 5}

\* a long history of n rows, one per calendar day 1..n, as the provider may
\* order it
LongLengths == {1, 21, 22, 23, 66, 67, 132, 133, 200, 264, 265}

RowOrders == {"ascending", "descending", "rotated"}

DayOfRow(i, n, order) ==
    CASE order = "ascending" -> i
      [] order = "descending" -> n + 1 - i
      [] order = "rotated" -> ((i + (n \div 2)) % n) + 1

LongQuotes(n, order) ==
    [i \in 1..n |->
        EntryOf(DateObject(MsPerDay * DayOfRow(i, n, order)),
                Numbered(DayOfRow(i, n, order)))]

StocksCall(sym, r, chart, found, meta) ==
    [route |-> "stocks", symbol |-> sym, range |-> r, chart |-> chart,
     search |-> found, meta |-> meta]

\* no request has been served yet: one request is followed per behaviour
RouteIdle == routeCall = NULL

\* the route serves a request: the answer is a function of the request and of
\* what the provider answers, and nothing of one request is kept for the next
ServeStocks(sym, r, chart, found, meta) ==
    /\ routeCall' = StocksCall(sym, r, chart, found, meta)
    /\ routeAnswer' = StocksAnswer(routeCall')
    /\ UNCHANGED pageVars

SomeSearch == CHOOSE found \in SearchOutcomes : Len(found.quotes) = 2

SomeMeta == CHOOSE meta \in MetaOutcomes : ~meta.thrown

\* GET for rows of the quotes array in any order, with and without a date
QuotesGET ==
    /\ RouteIdle
    /\ \E n \in 0..MaxRows : \E dates \in [1..n -> RowDates] :
         \E r \in {NULL, Param("max")} :
           ServeStocks(Param("ypf"), r,
               ChartResult([i \in 1..n |-> EntryOf(dates[i], Numbered(i))],
                           <<>>, UNDEFINED, UNDEFINED),
               SomeSearch, SomeMeta)

\* GET for rows of the quotes array that lack numeric fields
FieldsGET ==
    /\ RouteIdle
    /\ \E n \in 0..2 : \E shapes \in [1..n -> FieldShapes] :
         \E found \in SearchOutcomes, meta \in MetaOutcomes :
           ServeStocks(Param("AAPL"), Param("1M"),
               ChartResult([i \in 1..n |->
                               EntryOf(DateObject(MsPerDay * i), shapes[i])],
                           <<>>, UNDEFINED, UNDEFINED),
               found, meta)

\* GET for a payload of timestamps and columns
ColumnsGET ==
    /\ RouteIdle
    /\ \E n \in 0..3 : \E stamps \in [1..n -> TimestampValues] :
         \E quoteData \in QuoteDatas, adjCloseData \in AdjCloseDatas :
           \E found \in SearchOutcomes :
             ServeStocks(Param("ypf"), Param("6M"),
                 ChartResult(<<>>, stamps, quoteData, adjCloseData),
                 found, SomeMeta)

\* GET for long histories and every range
HistoryGET ==
    /\ RouteIdle
    /\ \E n \in LongLengths, order \in RowOrders, r \in RangeParams :
         ServeStocks(Param("AAPL"), r,
             ChartResult(LongQuotes(n, order), <<>>, UNDEFINED, UNDEFINED),
             SomeSearch, SomeMeta)

\* GET when the provider throws
ThrownGET ==
    /\ RouteIdle
    /\ \E err \in ChartErrors, found \in SearchOutcomes :
         \E sym \in SymbolParams \ {NULL, Param("")} :
           ServeStocks(sym, Param("3M"), err, found, SomeMeta)

\* what the provider would answer to a request that has no symbol
NoSymbolCharts ==
    ChartErrors
        \cup {ChartResult(<<EntryOf(DateObject(MsPerDay), Numbered(1))>>,
                          <<>>, UNDEFINED, UNDEFINED)}

\* GET without a symbol, whatever the provider would answer
NoSymbolGET ==
    /\ RouteIdle
    /\ \E sym \in {NULL, Param("")}, r \in RangeParams :
         \E chart \in NoSymbolCharts :
           ServeStocks(sym, r, chart, SomeSearch, SomeMeta)

StocksGET ==
    \/ QuotesGET
    \/ FieldsGET
    \/ ColumnsGET
    \/ HistoryGET
    \/ ThrownGET
    \/ NoSymbolGET

----------------------------------------------------------------------------
(* The news route: GET /api/news?query=..&days=..&date=.. *)

QueryParams == {NULL, Param(""), Param("YPF")}

DaysParams == {NULL, Param(""), Param("0"), Param("3"), Param("abc")}

DateParams ==
    {NULL, Param(""), Param("2024-05-10"), Param("2024-02-30"),
     Param("10/05/2024"), Param("ayer"), Param("2024-13-45")}

\* Number.parseInt(daysParam, 10) followed by the default of 7 for NaN and for
\* values under 1
ParseDays(daysParam) ==
    LET text == IF daysParam = NULL THEN "7" ELSE daysParam.value
    IN  IF text = "3" THEN 3 ELSE 7

\* Whether new Date(text) is a valid Date. A string of the date-time format
\* with legal values is; text that no engine reads as a date is not; for
\* other text (illegal element values, other formats) the result is left to
\* the engine, so both outcomes are possible.
DateParses(text) ==
    CASE text = "2024-05-10" -> {TRUE}
      [] text \in {"ayer", "2024-13-45"} -> {FALSE}
      [] text \in {"2024-02-30", "10/05/2024"} -> {TRUE, FALSE}

\* something truthy among the parameters: a string that is neither absent nor
\* empty
Given(param) == param # NULL /\ param.value # ""

\* searchParams.has(name)
Has(param) == param # NULL

\* Number.parseInt(limitParam, 10) of the texts of LimitParams
NaN == [nan |-> TRUE]

ParseInt(text) ==
    CASE text = "0" -> Num(0)
      [] text = "1" -> Num(1)
      [] text = "2" -> Num(2)
      [] text = "10" -> Num(10)
      [] text = "-1" -> Num(-1)
      [] text = "-5" -> Num(-5)
      [] text = "2.7" -> Num(2)
      [] text \in {"", "abc"} -> NaN

\* Array.prototype.slice(0, end)
SliceTo(list, end) ==
    LET n == Len(list)
        last == IF end < 0 THEN Max(n + end, 0) ELSE Min(end, n)
    IN  SubSeq(list, 1, last)

\* result.rss.channel.item || [], made an array when it is a single object
NewsItems(item) ==
    IF item = UNDEFINED THEN <<>>
    ELSE IF "object" \in DOMAIN item THEN <<item.object>>
    ELSE item.array

\* parseRSSFeed of a well-formed feed: one article per item
parseRSSFeed(item) ==
    LET newsItems == NewsItems(item)
    IN  [k \in 1..Len(newsItems) |-> [title |-> newsItems[k]]]

\* limitedNews
LimitedNews(news, limitParam) ==
    LET limit == ParseInt(IF limitParam = NULL THEN "10"
                          ELSE limitParam.value)
    IN  IF limit = NaN THEN news ELSE SliceTo(news, limit.num)

\* an analysis that lets the failure of the summarizer out
GptAnalysisRethrown(call) ==
    IF ~call.openai THEN [thrown |-> FALSE, value |-> NULL]
    ELSE IF ~call.feed.wellFormed \/ call.gpt.thrown
    THEN [thrown |-> TRUE, value |-> NULL]
    ELSE [thrown |-> FALSE, value |-> [summary |-> call.gpt.content]]

\* gptAnalysis: null without a summarizer and when extractTitlesFromRSS or
\* analyzeRSSWithGPT throws
GptAnalysis(call) ==
    IF ~call.openai THEN [thrown |-> FALSE, value |-> NULL]
    ELSE IF ~call.feed.wellFormed \/ call.gpt.thrown
    THEN [thrown |-> FALSE, value |-> NULL]
    ELSE [thrown |-> FALSE, value |-> [summary |-> call.gpt.content]]

\* the calls the route has made once the feed has answered
CallsAfterFeed(call) ==
    IF call.openai /\ call.feed.wellFormed THEN <<"feed", "summarizer">>
    ELSE <<"feed">>

NewsError(status, title, calls) ==
    [status |-> status, error |-> title, success |-> FALSE, calls |-> calls,
     specificDate |-> NULL, requestedDays |-> 0, totalResults |-> 0,
     summary |-> UNDEFINED, news |-> <<>>]

\* the time filter of buildGoogleNewsURL, or the Error it throws for a date
\* of which getTime() is NaN
BuildAnyDate(call) ==
    IF Given(call.date)
    THEN [thrown |-> FALSE, specificDate |-> call.date, requestedDays |-> 0]
    ELSE [thrown |-> FALSE, specificDate |-> NULL,
          requestedDays |-> ParseDays(call.days)]

buildGoogleNewsURL(call) ==
    IF Given(call.date)
    THEN IF call.parses
         THEN [thrown |-> FALSE, specificDate |-> call.date,
               requestedDays |-> 0]
         ELSE [thrown |-> TRUE, specificDate |-> NULL, requestedDays |-> 0]
    ELSE [thrown |-> FALSE, specificDate |-> NULL,
          requestedDays |-> ParseDays(call.days)]

\* GET of the news route, for a request, the outcome of the request to the
\* feed, whether the summarizer is configured and what it answers
NewsAnswer(call) ==
    IF ~Given(call.query) THEN NewsError(400, "Bad Request", <<>>)
    ELSE IF Given(call.date) /\ Has(call.days)
    THEN NewsError(400, "Bad Request", <<>>)
    ELSE LET url == buildGoogleNewsURL(call)
             gptAnalysis == GptAnalysis(call)
         IN  IF url.thrown THEN NewsError(400, "Bad Request", <<>>)
             ELSE IF call.feed.thrown
             THEN IF call.feed.code \in {"ENOTFOUND", "ETIMEDOUT"}
                  THEN NewsError(503, "Service Unavailable", <<"feed">>)
                  ELSE NewsError(500, "Internal Server Error", <<"feed">>)
             ELSE IF gptAnalysis.thrown \/ ~call.feed.wellFormed
             THEN NewsError(500, "Internal Server Error",
                            CallsAfterFeed(call))
             ELSE LET limitedNews ==
                          LimitedNews(parseRSSFeed(call.feed.item),
                                      call.limit)
                  IN  [status |-> 200, error |-> "", success |-> TRUE,
                       calls |-> CallsAfterFeed(call),
                       specificDate |-> url.specificDate,
                       requestedDays |-> url.requestedDays,
                       totalResults |-> Len(limitedNews),
                       summary |-> IF gptAnalysis.value = NULL THEN UNDEFINED
                                   ELSE gptAnalysis.value.summary,
                       news |-> limitedNews]

\* a feed that answers
Feed(wellFormed, item) ==
    [thrown |-> FALSE, code |-> "", wellFormed |-> wellFormed, item |-> item]

FeedFailure(code) ==
    [thrown |-> TRUE, code |-> code, wellFormed |-> FALSE, item |-> UNDEFINED]

FeedOutcomes ==
    {Feed(TRUE, [array |-> <<"t1", "t2">>]), FeedFailure("ENOTFOUND"),
     FeedFailure("ECONNRESET")}

\* channel.item of a feed: absent, one object, an array
FeedItems ==
    {UNDEFINED, [object |-> "t1"], [array |-> <<"t1", "t2">>],
     [array |-> <<"t1", "t2", "t3">>]}

LimitParams ==
    {NULL, Param(""), Param("abc"), Param("0"), Param("1"), Param("2"),
     Param("10"), Param("-1"), Param("-5"), Param("2.7")}

\* what the summarizer answers: a text, no content, a failure
GptOutcomes ==
    {[thrown |-> FALSE, content |-> [text |-> "resumen"]],
     [thrown |-> FALSE, content |-> NULL],
     [thrown |-> TRUE, content |-> NULL]}

NewsCall(query, days, date, parses, feed, openai, gpt, limit) ==
    [route |-> "news", query |-> query, days |-> days, date |-> date,
     parses |-> parses, feed |-> feed, openai |-> openai, gpt |-> gpt,
     limit |-> limit]

ServeNews(query, days, date, parses, feed, openai, gpt, limit) ==
    /\ routeCall' = NewsCall(query, days, date, parses, feed, openai, gpt,
                             limit)
    /\ routeAnswer' = NewsAnswer(routeCall')
    /\ UNCHANGED pageVars

\* GET for every combination of query, days and date
NewsGET ==
    /\ RouteIdle
    /\ \E query \in QueryParams, days \in DaysParams, date \in DateParams :
         \E feed \in FeedOutcomes, openai \in BOOLEAN :
           \E parses \in IF Given(date) THEN DateParses(date.value)
                         ELSE {TRUE} :
             \E gpt \in {g \in GptOutcomes : ~g.thrown /\ g.content # NULL} :
               ServeNews(query, days, date, parses, feed, openai, gpt, NULL)

\* GET for a feed that answers, every limit and every answer of the
\* summarizer
ArticlesGET ==
    /\ RouteIdle
    /\ \E item \in FeedItems, wellFormed \in BOOLEAN, limit \in LimitParams :
         \E openai \in BOOLEAN, gpt \in GptOutcomes :
           \E date \in {NULL, Param("2024-05-10")} :
             ServeNews(Param("YPF"), NULL, date, TRUE,
                       Feed(wellFormed, IF wellFormed THEN item
                                        ELSE UNDEFINED),
                       openai, gpt, limit)

----------------------------------------------------------------------------
(* The news service of the client: fetchNews *)

\* Number.prototype.toString of the numbers of DaysArgs and LimitArgs
NumberToString(n) ==
    CASE n = 0 -> "0"
      [] n = 1 -> "1"
      [] n = 3 -> "3"
      [] n = 7 -> "7"
      [] n = 10 -> "10"

\* a default parameter value: it stands for an argument that is undefined
Defaulted(arg, value) == IF arg = UNDEFINED THEN value ELSE arg

\* a request that carries days whether or not it carries a date
FetchNewsParamsDaysAlways(args) ==
    LET days == Defaulted(args.days, Num(7))
        limit == Defaulted(args.limit, Num(10))
        date == Defaulted(args.date, NULL)
    IN  <<[name |-> "query", value |-> Trim(args.query.value)],
          [name |-> "language", value |-> "es-419"],
          [name |-> "country", value |-> "AR"],
          [name |-> "limit", value |-> NumberToString(limit.num)]>>
            \o (IF Given(date)
                THEN <<[name |-> "date", value |-> date.value]>>
                ELSE <<>>)
            \o <<[name |-> "days", value |-> NumberToString(days.num)]>>

\* params of fetchNews, in the order of the URLSearchParams
FetchNewsParams(args) ==
    LET days == Defaulted(args.days, Num(7))
        limit == Defaulted(args.limit, Num(10))
        date == Defaulted(args.date, NULL)
    IN  <<[name |-> "query", value |-> Trim(args.query.value)],
          [name |-> "language", value |-> "es-419"],
          [name |-> "country", value |-> "AR"],
          [name |-> "limit", value |-> NumberToString(limit.num)]>>
            \o (IF Given(date)
                THEN <<[name |-> "date", value |-> date.value]>>
                ELSE <<[name |-> "days",
                        value |-> NumberToString(days.num)]>>)

\* the message of the Error the catch block of fetchNews throws
FetchNewsFailure(outcome) ==
    IF outcome.code \in {"ENOTFOUND", "ETIMEDOUT", "ERR_NETWORK"}
    THEN "Error de conexion con la API."
    ELSE IF outcome.status = 400 THEN "Error en los parametros"
    ELSE IF outcome.status = 403 THEN "Acceso denegado a la API"
    ELSE IF outcome.status = 429 THEN "Demasiadas solicitudes."
    ELSE IF outcome.status >= 500 THEN "Error interno del servidor."
    ELSE IF outcome.status # 0 THEN "Error del servidor"
    ELSE "Error en la respuesta de la API"

\* fetchNews for its arguments (the query as Param of its text) and the
\* outcome of the request it may send
FetchNewsResult(args, outcome) ==
    IF args.query.value = ""
    THEN [thrown |-> TRUE, message |-> "El parametro query es requerido",
          params |-> <<>>, calls |-> <<>>]
    ELSE IF outcome.status = 200 /\ outcome.success
    THEN [thrown |-> FALSE, message |-> "",
          params |-> FetchNewsParams(args), calls |-> <<"api">>]
    ELSE [thrown |-> TRUE, message |-> FetchNewsFailure(outcome),
          params |-> FetchNewsParams(args), calls |-> <<"api">>]

QueryArgs == {"", " ", "YPF"}

DaysArgs == {UNDEFINED, Num(0), Num(1), Num(3), Num(7)}

DateArgs == {UNDEFINED, NULL, Param(""), Param("2024-05-10"), Param("ayer")}

LimitArgs == {UNDEFINED, Num(3), Num(10)}

\* what axios.get ends with: a response, or an error with a code or a
\* response status
ApiOutcomes ==
    {[status |-> 200, success |-> TRUE, code |-> ""],
     [status |-> 200, success |-> FALSE, code |-> ""],
     [status |-> 400, success |-> FALSE, code |-> ""],
     [status |-> 500, success |-> FALSE, code |-> ""],
     [status |-> 0, success |-> FALSE, code |-> "ERR_NETWORK"]}

fetchNews ==
    /\ RouteIdle
    /\ \E query \in QueryArgs, days \in DaysArgs, date \in DateArgs :
         \E limit \in LimitArgs, outcome \in ApiOutcomes :
           /\ routeCall' = [route |-> "fetchNews", query |-> Param(query),
                            days |-> days, date |-> date, limit |-> limit,
                            outcome |-> outcome]
           /\ routeAnswer' = FetchNewsResult(routeCall', outcome)
           /\ UNCHANGED pageVars

RouteNext == StocksGET \/ NewsGET \/ ArticlesGET \/ fetchNews

RouteSpec == Init /\ [][RouteNext]_vars

----------------------------------------------------------------------------
(* Validation: the ticker field and the route without a symbol *)

BlankInputs == {"", " ", "AAPL"}

ValidationNext ==
    \/ \E typed \in BlankInputs : SetSearchTerm(typed)
    \/ SearchButton
    \/ EnterKey
    \/ StockResponse
    \/ \E ready \in BOOLEAN, elements \in ClickElements,
          rendered \in SUBSET {0, 1}, viewportWidth \in ViewportWidths :
          ChartClick(ready, elements, rendered, viewportWidth)
    \/ NoSymbolGET

ValidationSpec == Init /\ [][ValidationNext]_vars

----------------------------------------------------------------------------
(* Claims *)

Selected == hoveredSpike # NULL

\* a click that onClick resolves to a point of the series
ClickResolves(elements, rendered) ==
    /\ Len(elements) > 0
    /\ InRange(data, elements[1].index)
    /\ TargetElementFound(elements[1].index, elements[1], rendered)

ResolvedClick(k) ==
    \E elements \in ClickElements, rendered \in SUBSET {0, 1},
       viewportWidth \in ViewportWidths :
        /\ ClickResolves(elements, rendered)
        /\ elements[1].index = k
        /\ ChartClick(TRUE, elements, rendered, viewportWidth)

\* the step issues a news request for date d
IssuesNewsFor(d) ==
    \E r \in BagToSet(newsInFlight') :
        /\ r.date = d
        /\ CopiesIn(r, newsInFlight') > CopiesIn(r, newsInFlight)

\* C1: a click on a point whose date D is a key of the enrichment cache sets
\* the selection with newsLoaded = true and newsSummary = the cached text, and
\* issues no news request for D, for a synthesized point and for a detected
\* peak or valley alike.
C1_CacheHitOnClick ==
    [][\A k \in ClickIndices :
          (ResolvedClick(k) /\ At(data, k).date \in DOMAIN newsCache)
              => /\ hoveredSpike'.newsLoaded
                 /\ hoveredSpike'.newsSummary = newsCache[At(data, k).date]
                 /\ ~IssuesNewsFor(At(data, k).date)]_vars

\* C2: over one session at most one news request is issued for a date: no
\* step issues a request for a date a request was already issued for.
C2_AtMostOneRequestPerDate ==
    [][\A d \in Dates : IssuesNewsFor(d) => d \notin newsRequested]_vars

\* C3: the selected spike and the anchor position are both set or both null
\* in every reachable state.
C3_SelectionAndAnchorTogether ==
    (hoveredSpike = NULL) <=> (popoverPosition = NULL)

\* a selection was made and dismissed
C3_Witness ==
    /\ newsRequested # {}
    /\ hoveredSpike = NULL
    /\ popoverPosition = NULL

\* C4: every change of the ticker or of the range returns the selection to
\* idle (spike and anchor null) and clears the detected-spike list.
C4_ChangeResetsSelection ==
    [][(symbol' # symbol \/ range' # range)
          => /\ hoveredSpike' = NULL
             /\ popoverPosition' = NULL
             /\ spikes' = <<>>]_vars

\* C5: once all in-flight series requests have completed, what is displayed
\* comes from the response to the request for the current (symbol, range).
C5_LatestRequestWins ==
    BagCardinality(stockInFlight) = 0 => shownFor = StockRequest(symbol, range)

\* the texts an enrichment for date d can end with
TextsFor(d) ==
    {SummaryOf(sym, d) : sym \in Tickers}
        \cup {NoSummaryText, FallbackMessage, ErrorMessage}

\* the selection shows the point of one series at its index, and only texts
\* obtained for its own date
SelectionOfItsDate ==
    Selected =>
        /\ \E sym \in Tickers, rng \in RANGE_OPTIONS :
               LET series == ProviderSeries(sym, rng)
                   k == hoveredSpike.index
                   neighbours == ((k - LEFT_BARS)..(k + RIGHT_BARS)) \ {k}
               IN  /\ InRange(series, k)
                   /\ At(series, k).date = hoveredSpike.date
                   /\ At(series, k).close = hoveredSpike.close
                   /\ hoveredSpike.changePercent =
                          Frac((At(series, k).close - At(series, k - 1).close) * 100,
                               At(series, k - 1).close)
                   /\ hoveredSpike.kind = "peak" =>
                          \A j \in neighbours : At(series, j).close < hoveredSpike.close
                   /\ hoveredSpike.kind = "valley" =>
                          \A j \in neighbours : At(series, j).close > hoveredSpike.close
        /\ IF hoveredSpike.newsLoaded
           THEN hoveredSpike.newsSummary \in TextsFor(hoveredSpike.date)
           ELSE hoveredSpike.newsSummary = NULL

\* C6: a click while a point is selected replaces the selection in one step
\* by the spike of the clicked point, a news response for another date than
\* the selected one leaves the selection as it is, and the selection's fields
\* are always those of its own date.
C6_NoStaleSelection ==
    /\ []SelectionOfItsDate
    /\ [][/\ \A req \in BagToSet(newsInFlight), outcome \in NewsOutcomes :
               (Selected /\ req.date # hoveredSpike.date /\ FetchNewsDone(req, outcome))
                   => hoveredSpike' = hoveredSpike
          /\ \A k \in ClickIndices :
               (Selected /\ ~loading /\ InRange(data, k) /\ ResolvedClick(k))
                   => /\ hoveredSpike'.index = k
                      /\ hoveredSpike'.date = At(data, k).date
                      /\ hoveredSpike'.close = At(data, k).close]_vars

\* a point is selected and still pending while the text of another date,
\* whose request was issued earlier, is in the cache
C6_Witness ==
    /\ Selected
    /\ ~hoveredSpike.newsLoaded
    /\ \E d \in DOMAIN newsCache : d # hoveredSpike.date
    /\ \E r \in BagToSet(newsInFlight) : r.date = hoveredSpike.date

\* C7: when the news request for date D fails, with a non-OK response or with
\* a thrown error, a fallback text is stored in the cache under D.
C7_FailureIsCached ==
    [][\A req \in BagToSet(newsInFlight), outcome \in {"not_ok", "throw"} :
          FetchNewsDone(req, outcome) => req.date \in DOMAIN newsCache']_vars

\* C8: when a series fetch fails, the series, the detected-spike list and the
\* selection with its anchor are all cleared.
C8_FailureClearsAll ==
    [][\A req \in BagToSet(stockInFlight) :
          \A resp \in {r \in StockResponses(req) : r.thrown \/ ~r.ok \/ ~r.success} :
              FetchStockDone(req, resp)
                  => /\ data' = <<>>
                     /\ spikes' = <<>>
                     /\ hoveredSpike' = NULL
                     /\ popoverPosition' = NULL]_vars

\* C9: a pending selection that the user keeps eventually becomes loaded,
\* with a non-null text, when every news request completes or fails.
C9_PendingBecomesLoaded ==
    \A d \in Dates :
        (Selected /\ hoveredSpike.date = d /\ ~hoveredSpike.newsLoaded)
            ~> (\/ ~Selected
                \/ hoveredSpike.date # d
                \/ hoveredSpike.newsLoaded /\ hoveredSpike.newsSummary # NULL)

\* a synthesized point was loaded by the failure of its request
C9_Witness ==
    /\ Selected
    /\ hoveredSpike.kind = "point"
    /\ hoveredSpike.newsLoaded
    /\ hoveredSpike.newsSummary = ErrorMessage

\* C10: every index detectSpikes reports lies in 4..length-5; a reported peak
\* is strictly above each of its 8 neighbours and a reported valley strictly
\* below each of them; no index is reported twice.
C10_ReportedAreStrictExtrema ==
    \A n \in 1..Len(spikes) :
        LET i == spikes[n].index
            neighbours == ((i - 4)..(i + 4)) \ {i}
        IN  /\ 4 <= i
            /\ i <= Len(data) - 5
            /\ spikes[n].kind \in {"peak", "valley"}
            /\ spikes[n].kind = "peak" =>
                   \A j \in neighbours : At(data, j).close < At(data, i).close
            /\ spikes[n].kind = "valley" =>
                   \A j \in neighbours : At(data, j).close > At(data, i).close
            /\ \A m \in 1..Len(spikes) : m < n => spikes[m].index < i

\* a valley is reported at index 4 while index 5, which no neighbour exceeds
\* but which ties with one, is not reported
C10_Witness ==
    /\ Len(data) = 10
    /\ \E n \in 1..Len(spikes) : spikes[n].kind = "valley" /\ spikes[n].index = 4
    /\ \A j \in 1..9 : j # 5 => At(data, j).close <= At(data, 5).close
    /\ At(data, 9).close = At(data, 5).close
    /\ \A n \in 1..Len(spikes) : spikes[n].index # 5

\* the closes of the 4 points before and the 4 points after index i
NeighbourCloses(i) ==
    <<At(data, i - 4).close, At(data, i - 3).close, At(data, i - 2).close,
      At(data, i - 1).close, At(data, i + 1).close, At(data, i + 2).close,
      At(data, i + 3).close, At(data, i + 4).close>>

NeighbourSum(i) ==
    LET c == NeighbourCloses(i)
    IN  c[1] + c[2] + c[3] + c[4] + c[5] + c[6] + c[7] + c[8]

StrictExtremum(i) ==
    \/ \A n \in 1..8 : NeighbourCloses(i)[n] < At(data, i).close
    \/ \A n \in 1..8 : NeighbourCloses(i)[n] > At(data, i).close

Reported(i) == \E n \in 1..Len(spikes) : spikes[n].index = i

\* |close[i] - m| / m * 100 for the mean m = NeighbourSum(i) / 8, against a
\* percentage: |8 * close[i] - sum| * 100 against percent * sum
ProminenceAtLeast(i, percent) ==
    /\ NeighbourSum(i) > 0
    /\ Abs(8 * At(data, i).close - NeighbourSum(i)) * 100 >= percent * NeighbourSum(i)

ProminenceExactly(i, percent) ==
    /\ NeighbourSum(i) > 0
    /\ Abs(8 * At(data, i).close - NeighbourSum(i)) * 100 = percent * NeighbourSum(i)

\* C11: a strict peak or valley at an index of 4..length-5 is reported if and
\* only if its prominence against the mean of its 8 neighbours is at least
\* 2%: exactly 2% is kept, less is discarded, a neighbour mean of 0 is
\* discarded, and no extremum that passes is missed.
C11_ProminenceFilter ==
    \A i \in 4..(Len(data) - 5) :
        StrictExtremum(i) => (Reported(i) <=> ProminenceAtLeast(i, 2))

\* an extremum whose prominence is exactly 2% is reported
C11_Witness ==
    \E i \in 4..(Len(data) - 5) :
        StrictExtremum(i) /\ ProminenceExactly(i, 2) /\ Reported(i)

\* extrema are discarded: one under 2%, one whose neighbours have mean 0
C11_DiscardedUnderTwo ==
    \E i \in 4..(Len(data) - 5) :
        /\ StrictExtremum(i) /\ NeighbourSum(i) > 0
        /\ ~ProminenceAtLeast(i, 2) /\ ~Reported(i)

C11_DiscardedMeanZero ==
    \E i \in 4..(Len(data) - 5) :
        StrictExtremum(i) /\ NeighbourSum(i) = 0 /\ ~Reported(i)

\* C12: a series of fewer than 9 points yields no detection, and in a series
\* of exactly 9 points only index 4 can be reported.
C12_ShortSeriesYieldNothing ==
    /\ Len(data) < 9 => spikes = <<>>
    /\ Len(data) = 9 => \A n \in 1..Len(spikes) : spikes[n].index = 4

\* the answer carried 8 points, one of them 2% or more above all the others
C12_Witness ==
    /\ ~loading
    /\ Len(data) = 8
    /\ \A j \in 0..7 : j # 4 => At(data, j).close = 100
    /\ At(data, 4).close = 102
    /\ spikes = <<>>

\* C13: a strictly increasing series of closes, and a strictly decreasing one,
\* of any length, yields no detection.
C13_MonotoneYieldNothing ==
    (\/ \A j \in 1..(Len(data) - 1) : At(data, j - 1).close < At(data, j).close
     \/ \A j \in 1..(Len(data) - 1) : At(data, j - 1).close > At(data, j).close)
        => spikes = <<>>

\* the answer carried a strictly increasing series of 10 points whose point
\* at index 4 stands 2% or more above the mean of its neighbours
C13_Witness ==
    /\ ~loading
    /\ Len(data) = 10
    /\ \A j \in 1..(Len(data) - 1) : At(data, j - 1).close < At(data, j).close
    /\ ProminenceAtLeast(4, 2)
    /\ spikes = <<>>

\* the series has 9 points, all at one positive baseline except the 5th
FlatNine ==
    /\ Len(data) = 9
    /\ At(data, 0).close > 0
    /\ \A j \in 0..8 : j # 4 => At(data, j).close = At(data, 0).close

\* C14: for a 9-point series flat at b > 0 except its 5th point, exactly one
\* spike is detected, at index 4, when the 5th close deviates from b by 2% or
\* more: a peak when it is above b, a valley when below; nothing is detected
\* when the deviation is under 2%.
C14_IsolatedSpike ==
    FlatNine =>
        LET b == At(data, 0).close
            v == At(data, 4).close
        IN  IF Abs(v - b) * 100 >= 2 * b
            THEN /\ Len(spikes) = 1
                 /\ spikes[1].index = 4
                 /\ spikes[1].kind = IF v > b THEN "peak" ELSE "valley"
            ELSE spikes = <<>>

\* the 5th point is 110 against a baseline of 100 and index 4 is the one peak
C14_Witness ==
    /\ FlatNine
    /\ At(data, 0).close = 100
    /\ At(data, 4).close = 110
    /\ Len(spikes) = 1
    /\ spikes[1].index = 4
    /\ spikes[1].kind = "peak"

\* a deviation under 2% is detected as nothing, a valley of 2% is detected
C14_UnderTwoPercent ==
    FlatNine /\ At(data, 0).close = 100 /\ At(data, 4).close = 101 /\ spikes = <<>>

C14_ValleyOfTwoPercent ==
    FlatNine /\ At(data, 0).close = 100 /\ At(data, 4).close = 98 /\ Len(spikes) = 1

\* cp is (close[i] - close[i-1]) / close[i-1] * 100 in the series, as a
\* fraction <<numerator, denominator>>, and 0 for i = 0 or close[i-1] = 0
IsChangeAt(cp, series, i) ==
    IF i > 0 /\ At(series, i - 1).close # 0
    THEN /\ cp[2] > 0
         /\ cp[1] * At(series, i - 1).close
                = (At(series, i).close - At(series, i - 1).close) * 100 * cp[2]
    ELSE cp[1] = 0

\* C15: the changePercent of every detected spike, and of every spike a click
\* selects, is (close[i] - close[i-1]) / close[i-1] * 100 against the point
\* before it in the current series, and 0 when i = 0 or close[i-1] = 0.
C15_ChangeAgainstPreviousPoint ==
    /\ [](\A n \in 1..Len(spikes) :
              IsChangeAt(spikes[n].changePercent, data, spikes[n].index))
    /\ [][\A k \in WideClickIndices :
              (hoveredSpike' # hoveredSpike /\ hoveredSpike' # NULL
                   /\ hoveredSpike'.index = k)
                  => IsChangeAt(hoveredSpike'.changePercent, data, k)]_vars

\* the point after a close of 0 is selected with a change of 0 while the
\* list holds a peak whose change is 0 for the same reason
C15_Witness ==
    /\ Selected
    /\ hoveredSpike.index = 1
    /\ At(data, 0).close = 0
    /\ hoveredSpike.changePercent = <<0, 1>>
    /\ \E n \in 1..Len(spikes) :
           /\ At(data, spikes[n].index - 1).close = 0
           /\ spikes[n].changePercent = <<0, 1>>

\* the first point, and a point with a negative change, are selected
C15_FirstPoint ==
    Selected /\ hoveredSpike.index = 0 /\ hoveredSpike.changePercent = <<0, 1>>

C15_NegativeChange ==
    Selected /\ hoveredSpike.changePercent = <<-20, 1>>

\* C19: for a viewport of width W > 0 the stored anchor x' lies in
\* [16 + w/2, W - 16 - w/2] with w = min(360, W - 32); x' is the raw x when
\* the raw x lies in that interval; the vertical coordinate is stored as it
\* is.  Coordinates are in half pixels: 32 + w <= x' <= 2W - 32 - w.
C19_AnchorClamped ==
    [][\A k \in WideClickIndices, W \in WideViewportWidths \ {0} :
          (\E rendered \in {{0}, {0, 1}} :
               ChartClick(TRUE, <<[index |-> k]>>, rendered, W))
              => LET w == IF 360 < W - 32 THEN 360 ELSE W - 32
                     lowest == 32 + w
                     highest == 2 * W - 32 - w
                     x == popoverPosition'.x
                 IN  /\ lowest <= x
                     /\ x <= highest
                     /\ (lowest <= RawX(k) /\ RawX(k) <= highest) => x = RawX(k)
                     /\ popoverPosition'.y = RawY(At(data, k).close)]_vars

\* the anchor of the last point, raw x 1120, was moved to 1084 in a viewport
\* of 1280
C19_Witness ==
    /\ Selected
    /\ hoveredSpike.index = 9
    /\ RawX(9) = 2 * 1120
    /\ popoverPosition.x = 2 * 1084

\* the anchor of the first point was moved right; an anchor was left where it
\* was; in a viewport narrower than the popover every anchor is its centre
C19_MovedRight ==
    Selected /\ hoveredSpike.index = 0 /\ popoverPosition.x = 2 * 196

C19_LeftInPlace ==
    Selected /\ hoveredSpike.index = 4 /\ popoverPosition.x = RawX(4)

C19_NarrowViewport ==
    Selected /\ hoveredSpike.index = 9 /\ popoverPosition.x = 200

\* C18: a click on a rendered point at index k selects a spike with index k
\* and the date and close of data[k]: a copy of the detected spike of that
\* index when the list holds one, with its newsLoaded and newsSummary, and a
\* spike of kind 'point' otherwise; the kind is 'point' if and only if no
\* detected spike has the index.
C18_ClickSelectsPoint ==
    [][\A k \in ClickIndices :
          (~loading /\ InRange(data, k) /\ ResolvedClick(k))
              => /\ hoveredSpike'.index = k
                 /\ hoveredSpike'.date = At(data, k).date
                 /\ hoveredSpike'.close = At(data, k).close
                 /\ (\E n \in 1..Len(spikes) : spikes[n].index = k)
                        => \E n \in 1..Len(spikes) : hoveredSpike' = spikes[n]
                 /\ (hoveredSpike'.kind = "point")
                        <=> ~(\E n \in 1..Len(spikes) : spikes[n].index = k)]_vars

\* the selection is a copy of a detected spike that is loaded
C18_Witness ==
    /\ Selected
    /\ hoveredSpike.kind \in {"peak", "valley"}
    /\ hoveredSpike.newsLoaded
    /\ \E n \in 1..Len(spikes) : spikes[n] = hoveredSpike

\* a synthesized point is selected while the list holds a spike elsewhere
C18_PointSelected ==
    /\ Selected
    /\ hoveredSpike.kind = "point"
    /\ spikes # <<>>
    /\ \A n \in 1..Len(spikes) : spikes[n].index # hoveredSpike.index

\* C16: the detected-spike list is detectSpikes of the current series (same
\* indices, dates, closes and kinds); every spike's index is an index of the
\* current series whose date is the spike's; the list is empty when the
\* series is.
C16_SpikesOfCurrentSeries ==
    /\ Len(spikes) = Len(detectSpikes(data))
    /\ \A n \in 1..Len(spikes) :
           /\ spikes[n].index = detectSpikes(data)[n].index
           /\ spikes[n].date = detectSpikes(data)[n].date
           /\ spikes[n].close = detectSpikes(data)[n].close
           /\ spikes[n].kind = detectSpikes(data)[n].kind
           /\ InRange(data, spikes[n].index)
           /\ At(data, spikes[n].index).date = spikes[n].date
    /\ data = <<>> => spikes = <<>>

\* the series was replaced: the peak selected at index 4 of the earlier
\* series is at index 5 of the list of the current one
C16_Witness ==
    /\ Selected
    /\ hoveredSpike.kind = "peak"
    /\ hoveredSpike.index = 4
    /\ Len(spikes) = 1
    /\ spikes[1].index = 5
    /\ spikes[1].date = hoveredSpike.date

\* C17: every new series is followed by a detection pass whose spikes all
\* start with newsLoaded = false and newsSummary = null, also for a date that
\* was loaded before.
C17_RecomputedStartUnloaded ==
    [][\A req \in BagToSet(stockInFlight) :
          \A resp \in {r \in StockResponses(req) : r.ok /\ r.success} :
              FetchStockDone(req, resp)
                  => \A n \in 1..Len(spikes') :
                         /\ ~spikes'[n].newsLoaded
                         /\ spikes'[n].newsSummary = NULL]_vars

\* the list holds an unloaded spike for a date whose text is in the cache
C17_Witness ==
    \E n \in 1..Len(spikes) :
        /\ ~spikes[n].newsLoaded
        /\ spikes[n].newsSummary = NULL
        /\ spikes[n].date \in DOMAIN newsCache

\* C20: when a text is obtained for date D, by a summary or by a failure, the
\* same text is in the cache under D, in every spike of the list with date D
\* and in the selection when its date is D.
C20_TextInAllPlaces ==
    [][\A req \in BagToSet(newsInFlight), outcome \in NewsOutcomes :
          FetchNewsDone(req, outcome)
              => LET text == NewsText(req, outcome)
                 IN  /\ req.date \in DOMAIN newsCache'
                     /\ newsCache'[req.date] = text
                     /\ \A n \in 1..Len(spikes') :
                            spikes'[n].date = req.date
                                => spikes'[n].newsSummary = text
                     /\ (hoveredSpike' # NULL /\ hoveredSpike'.date = req.date)
                            => hoveredSpike'.newsSummary = text]_vars

\* the step is the completion of a news request for date d
CompletesNewsFor(d) ==
    \E req \in BagToSet(newsInFlight), outcome \in NewsOutcomes :
        req.date = d /\ FetchNewsDone(req, outcome)

\* C21: the enrichment cache only grows: no step removes a date that was
\* written, whatever the ticker, the range, the series failures, the
\* dismissals and the clicks, and an entry changes only by the completion of
\* a news request for its date.
C21_CacheOnlyGrows ==
    [][\A d \in DOMAIN newsCache :
          /\ d \in DOMAIN newsCache'
          /\ newsCache'[d] # newsCache[d] => CompletesNewsFor(d)]_vars

\* the cache holds two dates after the ticker was changed and the series
\* request failed
C21_Witness ==
    /\ Cardinality(DOMAIN newsCache) >= 2
    /\ symbol # DEFAULT_SYMBOL
    /\ error # ""
    /\ data = <<>>

\* C22: a failed news request leaves the error message, the suggestions, the
\* series and the loading flag of the page as they are; the selection of its
\* date becomes loaded with a fallback text, the spikes of the list change at
\* its date only, to loaded with that text, and nothing else changes but the
\* cache.
C22_FailureDoesNotPropagate ==
    [][\A req \in BagToSet(newsInFlight), outcome \in {"not_ok", "throw"} :
          FetchNewsDone(req, outcome)
              => /\ UNCHANGED <<error, suggestions, data, loading, symbol,
                                range, searchTerm, popoverPosition, stockInFlight>>
                 /\ IF Selected /\ hoveredSpike.date = req.date
                    THEN /\ hoveredSpike'.newsLoaded
                         /\ hoveredSpike'.newsSummary \in {FallbackMessage, ErrorMessage}
                         /\ hoveredSpike'.index = hoveredSpike.index
                         /\ hoveredSpike'.kind = hoveredSpike.kind
                    ELSE hoveredSpike' = hoveredSpike
                 /\ Len(spikes') = Len(spikes)
                 /\ \A n \in 1..Len(spikes) :
                        \/ spikes'[n] = spikes[n]
                        \/ /\ spikes[n].date = req.date
                           /\ spikes'[n].newsLoaded
                           /\ spikes'[n].newsSummary \in {FallbackMessage, ErrorMessage}]_vars

\* a detected spike is selected, loaded with the text of a failure, while
\* the page shows its series without an error
C22_Witness ==
    /\ Selected
    /\ hoveredSpike.kind \in {"peak", "valley"}
    /\ hoveredSpike.newsLoaded
    /\ hoveredSpike.newsSummary \in {FallbackMessage, ErrorMessage}
    /\ \E n \in 1..Len(spikes) : spikes[n] = hoveredSpike
    /\ error = ""
    /\ data # <<>>

\* the stocks route has answered a request
StocksAnswered == routeCall # NULL /\ routeCall.route = "stocks"

\* the stocks route has answered with a series
StocksDelivered == StocksAnswered /\ routeAnswer.status = 200

\* the calendar day a date string stands for
DayOf(date) == 100 * date[1] + 10 * date[2] + date[3]

\* the provider rows are the quotes array and the rows i and j of it carry a
\* date
DatedRows(i, j) ==
    /\ i \in 1..Len(routeCall.chart.quotes)
    /\ j \in 1..Len(routeCall.chart.quotes)
    /\ HasDate(routeCall.chart.quotes[i])
    /\ HasDate(routeCall.chart.quotes[j])

\* the instant of row i of the quotes array
RowTime(i) == DateValue(routeCall.chart.quotes[i].date)

\* C23: the series the stocks route returns is in ascending order of date,
\* whatever the order of the provider rows.
C23_SortedAscending ==
    StocksDelivered
        => \A k \in 1..(Len(routeAnswer.data) - 1) :
               DayOf(routeAnswer.data[k].date)
                   <= DayOf(routeAnswer.data[k + 1].date)

\* a series of three points or more was returned for rows of which a later
\* day comes before an earlier one
C23_Witness ==
    /\ StocksDelivered
    /\ Len(routeAnswer.data) >= 3
    /\ DatedRows(1, 2)
    /\ RowTime(1) \div MsPerDay > RowTime(2) \div MsPerDay

\* C24: no two points of the returned series share a date: the dates are
\* strictly increasing, also when several rows fall on one calendar day.
C24_StrictlyIncreasingDates ==
    StocksDelivered
        => \A k \in 1..(Len(routeAnswer.data) - 1) :
               DayOf(routeAnswer.data[k].date)
                   < DayOf(routeAnswer.data[k + 1].date)

\* two rows of different instants of one calendar day were answered with a
\* series
C24_SameDayRows ==
    /\ StocksDelivered
    /\ DatedRows(1, 2)
    /\ RowTime(1) # RowTime(2)
    /\ RowTime(1) \div MsPerDay = RowTime(2) \div MsPerDay

\* the number of trading days of a range
TradingDays(r) ==
    CASE r = "1M" -> 22
      [] r = "3M" -> 66
      [] r = "6M" -> 132
      [] r = "1Y" -> 264

\* C25: for the ranges 1M, 3M, 6M and 1Y the returned series is the last
\* min(N, length) points of the sorted normalized series, N = 22, 66, 132,
\* 264, in the same order; for MAX it is the whole sorted series.
C25_RangeTrimming ==
    StocksDelivered
        => LET all == SortByDate(Parsed(routeCall.chart))
               r == routeAnswer.range
               returned == routeAnswer.data
           IN  IF r = "MAX" THEN returned = all
               ELSE LET m == Min(TradingDays(r), Len(all))
                    IN  /\ Len(returned) = m
                        /\ \A k \in 1..m :
                               returned[k] = all[Len(all) - m + k]

\* 200 rows in descending order and range 3M: the days 135..200 are returned
C25_Witness ==
    /\ StocksDelivered
    /\ Len(routeCall.chart.quotes) = 200
    /\ RowTime(1) > RowTime(2)
    /\ routeAnswer.range = "3M"
    /\ Len(routeAnswer.data) = 66
    /\ \A k \in 1..66 : DayOf(routeAnswer.data[k].date) = 134 + k

\* the whole series of 265 points is returned for MAX, the last 264 for 1Y
C25_WholeForMax ==
    /\ StocksDelivered
    /\ Len(routeCall.chart.quotes) = 265
    /\ \/ routeAnswer.range = "MAX" /\ Len(routeAnswer.data) = 265
       \/ routeAnswer.range = "1Y" /\ Len(routeAnswer.data) = 264

\* a field the provider row lacks
Absent(field) == field \in {UNDEFINED, NULL}

\* the number of a field, 0 for a field the row lacks
FieldOrZero(field) == IF Absent(field) THEN 0 ELSE field.num

\* the adjusted close of a row: the provider's, else the close, else 0
AdjustedOrClose(adjusted, close) ==
    IF ~Absent(adjusted) THEN adjusted.num ELSE FieldOrZero(close)

\* the point p is the row of the quotes array entry
PointOfEntry(p, entry) ==
    /\ p.date = IsoDate(DateValue(entry.date))
    /\ p.open = FieldOrZero(entry.open)
    /\ p.high = FieldOrZero(entry.high)
    /\ p.low = FieldOrZero(entry.low)
    /\ p.close = FieldOrZero(entry.close)
    /\ p.volume = FieldOrZero(entry.volume)
    /\ p.adjustedClose =
           AdjustedOrClose(IF ~Absent(entry.adjclose) THEN entry.adjclose
                           ELSE entry.adjClose, entry.close)

\* the point p is the row k of the timestamps and columns
PointOfColumns(p, k, chart) ==
    /\ p.date = IsoDate(chart.timestamp[k] * MsPerSecond)
    /\ p.open = FieldOrZero(Column(chart.quoteData.open, k - 1))
    /\ p.high = FieldOrZero(Column(chart.quoteData.high, k - 1))
    /\ p.low = FieldOrZero(Column(chart.quoteData.low, k - 1))
    /\ p.close = FieldOrZero(Column(chart.quoteData.close, k - 1))
    /\ p.volume = FieldOrZero(Column(chart.quoteData.volume, k - 1))
    /\ p.adjustedClose =
           AdjustedOrClose(AdjColumn(chart.adjCloseData, k - 1),
                           Column(chart.quoteData.close, k - 1))

\* C26: a provider row that lacks numeric fields does not make the route
\* fail: every point of the returned series is a row of the payload with 0 for
\* each of open, high, low, close and volume the row lacks, and with the close,
\* then 0, for an adjusted close it lacks.
C26_MissingFieldsDefault ==
    (StocksAnswered /\ ~MissingSymbol(routeCall.symbol)
        /\ ~routeCall.chart.thrown)
        => /\ routeAnswer.status \in {200, 404}
           /\ \A n \in 1..Len(routeAnswer.data) :
                  LET p == routeAnswer.data[n]
                      chart == routeCall.chart
                  IN  IF Len(chart.quotes) > 0
                      THEN \E i \in 1..Len(chart.quotes) :
                               /\ HasDate(chart.quotes[i])
                               /\ PointOfEntry(p, chart.quotes[i])
                      ELSE \E k \in 1..Len(chart.timestamp) :
                               PointOfColumns(p, k, chart)

\* a row without any of the fields and a row with a close and no adjusted
\* close were returned as points
C26_Witness ==
    /\ StocksDelivered
    /\ Len(routeCall.chart.quotes) = 2
    /\ LET first == routeCall.chart.quotes[1]
           second == routeCall.chart.quotes[2]
       IN  /\ \A field \in {first.open, first.high, first.low, first.close,
                            first.volume, first.adjclose, first.adjClose} :
                  field = UNDEFINED
           /\ second.adjclose = UNDEFINED /\ second.adjClose = NULL
           /\ ~Absent(second.close)
           /\ routeAnswer.data[2].adjustedClose = second.close.num
    /\ routeAnswer.data[1].close = 0
    /\ routeAnswer.data[1].adjustedClose = 0
    /\ routeAnswer.data[1].volume = 0

\* columns shorter than the timestamps, with null elements, were returned as
\* points
C26_ShortColumns ==
    /\ StocksDelivered
    /\ Len(routeCall.chart.quotes) = 0
    /\ Len(routeCall.chart.timestamp) = 3
    /\ routeCall.chart.quoteData.open = UNDEFINED
    /\ routeCall.chart.adjCloseData # UNDEFINED
    /\ routeCall.chart.adjCloseData.adjclose # UNDEFINED
    /\ Len(routeAnswer.data) = 3

\* C27: when the normalization yields no point the stocks route answers 404
\* with the first five, at most, of the symbols the search finds, and with no
\* suggestion when the search fails; a success never carries an empty series.
C27_NoDataIsNotFound ==
    /\ (StocksAnswered /\ ~MissingSymbol(routeCall.symbol)
           /\ ~routeCall.chart.thrown /\ Len(Parsed(routeCall.chart)) = 0)
          => /\ routeAnswer.status = 404
             /\ ~routeAnswer.success
             /\ Len(routeAnswer.suggestions) <= 5
             /\ \A k \in 1..Len(routeAnswer.suggestions) :
                    routeAnswer.suggestions[k] = routeCall.search.quotes[k]
             /\ Len(routeAnswer.suggestions)
                    = Min(5, Len(routeCall.search.quotes))
             /\ routeCall.search.thrown => routeAnswer.suggestions = <<>>
    /\ StocksDelivered => Len(routeAnswer.data) > 0

\* rows without a date, and a search that finds six symbols
C27_Witness ==
    /\ StocksAnswered
    /\ ~routeCall.chart.thrown
    /\ Len(routeCall.chart.timestamp) = 3
    /\ routeCall.chart.quoteData = UNDEFINED
    /\ Len(routeCall.search.quotes) = 6
    /\ routeAnswer.status = 404
    /\ Len(routeAnswer.suggestions) = 5

\* rows of the quotes array none of which has a date
C27_RowsWithoutDate ==
    /\ StocksAnswered
    /\ ~routeCall.chart.thrown
    /\ Len(routeCall.chart.quotes) = 2
    /\ routeAnswer.status = 404

\* the search fails
C27_SearchFails ==
    /\ StocksAnswered
    /\ ~routeCall.chart.thrown
    /\ routeCall.search.thrown
    /\ routeAnswer.status = 404
    /\ routeAnswer.suggestions = <<>>

\* the ticker field is empty or holds white space only
BlankTerm == searchTerm \in {"", " "}

\* C28: submitting an empty or whitespace-only ticker sets the validation
\* message and issues no series request, and leaves the symbol, the series,
\* the detections and the selection as they are; the stocks route answers a
\* request without a symbol with 400 and calls no provider.
C28_ValidationWithoutNetwork ==
    /\ [][(BlankTerm /\ handleSearch)
             => /\ error' = ValidationMessage
                /\ stockInFlight' = stockInFlight
                /\ seriesIssued' = seriesIssued
                /\ UNCHANGED <<symbol, data, spikes, hoveredSpike>>]_vars
    /\ []((StocksAnswered
              /\ (routeCall.symbol = NULL \/ routeCall.symbol = Param("")))
             => routeAnswer.status = 400 /\ routeAnswer.calls = <<>>)

\* a blank ticker was submitted while a series with a detection is shown and
\* a selection is open, and the route has answered 400 to a request without a
\* symbol for which the provider had rows
C28_Witness ==
    /\ BlankTerm
    /\ error = ValidationMessage
    /\ Len(data) > 0
    /\ Len(spikes) > 0
    /\ Selected
    /\ StocksAnswered
    /\ routeCall.symbol = Param("")
    /\ ~routeCall.chart.thrown
    /\ routeAnswer.status = 400

\* the failure classes of a request to the stocks route
RateLimited(call) ==
    call.chart.thrown /\ call.chart.message = "Too Many Requests"

TimedOut(call) ==
    call.chart.thrown /\ call.chart.code \in {"ETIMEDOUT", "ECONNABORTED"}

SymbolNotFound(call) ==
    call.chart.thrown
        /\ call.chart.message \in {"No data found, symbol may be delisted",
                                   "HTTPError: Not Found"}

\* C29: a missing symbol is answered with 400, no data and an unknown symbol
\* with 404, rate limiting by the provider with 429, a timeout of the provider
\* (ETIMEDOUT, ECONNABORTED) with 504 and any other failure with 500; 429 is
\* the answer to rate limiting only.
C29_StatusOfEachFailure ==
    StocksAnswered
        => LET call == routeCall
               status == routeAnswer.status
           IN  /\ MissingSymbol(call.symbol) => status = 400
               /\ ~MissingSymbol(call.symbol)
                     => /\ SymbolNotFound(call) => status = 404
                        /\ RateLimited(call) => status = 429
                        /\ TimedOut(call) => status = 504
                        /\ (call.chart.thrown /\ ~SymbolNotFound(call)
                               /\ ~RateLimited(call) /\ ~TimedOut(call))
                              => status = 500
                        /\ status = 429 => RateLimited(call)

\* the parameters the news route is to reject: no query, a date together with
\* days, a date that is not read as a date
NoQuery(call) == call.query = NULL \/ call.query = Param("")

DateAndDays(call) ==
    call.date # NULL /\ call.date # Param("") /\ call.days # NULL

DateNotRead(call) ==
    call.date # NULL /\ call.date # Param("") /\ ~call.parses

NewsAnswered == routeCall # NULL /\ routeCall.route = "news"

\* C30: the news route answers 400, without a request to the feed or to the
\* summarizer, when the query is missing or empty, when the request carries a
\* date together with days, and when the date is not read as a date.
C30_InvalidParametersRejected ==
    (NewsAnswered
        /\ (NoQuery(routeCall) \/ DateAndDays(routeCall)
               \/ DateNotRead(routeCall)))
        => routeAnswer.status = 400 /\ routeAnswer.calls = <<>>

\* a date that is not read as a date, alone with a query, while the feed
\* would answer and the summarizer is configured
C30_Witness ==
    /\ NewsAnswered
    /\ ~NoQuery(routeCall)
    /\ ~DateAndDays(routeCall)
    /\ DateNotRead(routeCall)
    /\ ~routeCall.feed.thrown
    /\ routeCall.openai
    /\ routeAnswer.status = 400

\* a date together with days
C30_DateWithDays ==
    /\ NewsAnswered
    /\ ~NoQuery(routeCall)
    /\ DateAndDays(routeCall)
    /\ routeCall.parses
    /\ routeAnswer.status = 400

\* a request with a query and a date alone reaches the feed and the summarizer
C30_Accepted ==
    /\ NewsAnswered
    /\ routeCall.date # NULL
    /\ routeAnswer.status = 200
    /\ routeAnswer.calls = <<"feed", "summarizer">>

\* fetchNews has run
FetchNewsRan == routeCall # NULL /\ routeCall.route = "fetchNews"

\* the values the request carries under a name
ValuesOf(params, name) ==
    {params[k].value : k \in {i \in 1..Len(params) : params[i].name = name}}

\* how many parameters of the request have one of the names
CountOf(params, names) ==
    Cardinality({k \in 1..Len(params) : params[k].name \in names})

\* C31: a request fetchNews builds carries exactly one of date and days: the
\* date when a non-empty date is given, else days, 7 by default; with an
\* empty query fetchNews throws and sends nothing.
C31_DateOrDays ==
    FetchNewsRan
        => LET args == routeCall
               params == routeAnswer.params
               given == args.date \notin {UNDEFINED, NULL, Param("")}
           IN  IF args.query = Param("")
               THEN routeAnswer.thrown /\ routeAnswer.calls = <<>>
               ELSE /\ routeAnswer.calls = <<"api">>
                    /\ CountOf(params, {"date", "days"}) = 1
                    /\ given => ValuesOf(params, "date") = {args.date.value}
                    /\ (~given /\ args.days = UNDEFINED)
                          => ValuesOf(params, "days") = {"7"}
                    /\ (~given /\ args.days # UNDEFINED)
                          => ValuesOf(params, "days")
                                 = {NumberToString(args.days.num)}

\* a date was given together with a number of days, and the request went
\* out with the date alone
C31_Witness ==
    /\ FetchNewsRan
    /\ routeCall.date = Param("2024-05-10")
    /\ routeCall.days = Num(3)
    /\ routeAnswer.calls = <<"api">>
    /\ ValuesOf(routeAnswer.params, "date") = {"2024-05-10"}
    /\ ValuesOf(routeAnswer.params, "days") = {}

\* an empty date with no days: the request carries days=7
C31_DefaultDays ==
    /\ FetchNewsRan
    /\ routeCall.date = Param("")
    /\ routeCall.days = UNDEFINED
    /\ ValuesOf(routeAnswer.params, "days") = {"7"}

\* an empty query: nothing is sent
C31_EmptyQuery ==
    /\ FetchNewsRan
    /\ routeCall.query = Param("")
    /\ routeAnswer.thrown
    /\ routeAnswer.calls = <<>>

\* the news route has fetched a feed it can read, for parameters it accepts
FeedRead ==
    /\ NewsAnswered
    /\ Given(routeCall.query)
    /\ ~(Given(routeCall.date) /\ Has(routeCall.days))
    /\ (Given(routeCall.date) => routeCall.parses)
    /\ ~routeCall.feed.thrown
    /\ routeCall.feed.wellFormed

\* the articles of the feed the route has fetched, in feed order
FeedArticles ==
    LET item == routeCall.feed.item
        titles == IF item = UNDEFINED THEN <<>>
                  ELSE IF "object" \in DOMAIN item THEN <<item.object>>
                  ELSE item.array
    IN  [k \in 1..Len(titles) |-> [title |-> titles[k]]]

\* C32: without a summarizer, and when the call to the summarizer fails, the
\* news route answers success = true with the articles and leaves the summary
\* out; the failure of the summarizer does not make the answer an error.
C32_SummaryOmitted ==
    (FeedRead /\ (~routeCall.openai \/ routeCall.gpt.thrown))
        => /\ routeAnswer.status = 200
           /\ routeAnswer.success
           /\ routeAnswer.summary = UNDEFINED
           /\ \A k \in 1..Len(routeAnswer.news) :
                  routeAnswer.news[k] = FeedArticles[k]
           /\ routeAnswer.totalResults = Len(routeAnswer.news)

\* the summarizer is configured and fails, and the three articles of the feed
\* are answered
C32_Witness ==
    /\ FeedRead
    /\ routeCall.openai
    /\ routeCall.gpt.thrown
    /\ routeAnswer.status = 200
    /\ routeAnswer.calls = <<"feed", "summarizer">>
    /\ Len(routeAnswer.news) = 3
    /\ routeAnswer.summary = UNDEFINED

\* no summarizer is configured
C32_NotConfigured ==
    /\ FeedRead
    /\ ~routeCall.openai
    /\ routeAnswer.status = 200
    /\ routeAnswer.calls = <<"feed">>
    /\ Len(routeAnswer.news) > 0

\* the summarizer answers and the summary is part of the answer
C32_Summarized ==
    /\ FeedRead
    /\ routeAnswer.status = 200
    /\ routeAnswer.summary = [text |-> "resumen"]

\* the limit parameter is an integer, or absent (10)
IntegerLimits ==
    {NULL, Param("0"), Param("1"), Param("2"), Param("10"), Param("-1"),
     Param("-5")}

\* the integer a limit parameter stands for
LimitValue(limitParam) ==
    CASE limitParam = NULL -> 10
      [] limitParam = Param("0") -> 0
      [] limitParam = Param("1") -> 1
      [] limitParam = Param("2") -> 2
      [] limitParam = Param("10") -> 10
      [] limitParam = Param("-1") -> -1
      [] limitParam = Param("-5") -> -5

\* C33: for every integer limit (10 when absent) the news route returns the
\* first limit articles of the feed, in feed order, and never more than
\* limit; totalResults is the number of articles returned.
C33_AtMostLimit ==
    (FeedRead /\ routeAnswer.status = 200
        /\ routeCall.limit \in IntegerLimits)
        => LET limit == LimitValue(routeCall.limit)
               returned == routeAnswer.news
           IN  /\ Len(returned) <= Max(limit, 0)
               /\ Len(returned) = Min(Max(limit, 0), Len(FeedArticles))
               /\ \A k \in 1..Len(returned) : returned[k] = FeedArticles[k]
               /\ routeAnswer.totalResults = Len(returned)

\* a feed of three articles was answered to a request with limit=-1
C33_NegativeLimit ==
    /\ FeedRead
    /\ routeAnswer.status = 200
    /\ routeCall.limit = Param("-1")
    /\ Len(FeedArticles) = 3

----------------------------------------------------------------------------
(* Detections close to one another: series long enough for two windows *)

\* points of the longest series of this family
MaxCrowdedLen == 14

\* what a point may stand above or below the baseline of 100
CrowdedDeviations == {-10, 0, 10, 20}

\* a series flat at 100 except at three places
CrowdedCloses(n, places, devs) ==
    [k \in 1..n |->
        100 + (IF k - 1 = places[1] THEN devs[1] ELSE 0)
            + (IF k - 1 = places[2] THEN devs[2] ELSE 0)
            + (IF k - 1 = places[3] THEN devs[3] ELSE 0)]

\* the answer to the mount request arrives with a series of this family
CrowdedPass ==
    \E req \in BagToSet(stockInFlight) :
        \E n \in {10, MaxCrowdedLen} :
            \E places \in {p \in [1..3 -> 0..(n - 1)] :
                               p[1] < p[2] /\ p[2] < p[3]} :
                \E devs \in [1..3 -> CrowdedDeviations] :
                    FetchStockDone(req,
                        OkResponse(SeriesOfCloses(
                            CrowdedCloses(n, places, devs))))

CrowdedSpec == Init /\ [][CrowdedPass]_vars

\* C34: two detections of one kind are more than 4 indices apart; a peak and
\* a valley may be neighbours.
C34_SameKindApart ==
    \A m, n \in 1..Len(spikes) :
        (m < n /\ spikes[m].kind = spikes[n].kind)
            => spikes[n].index - spikes[m].index > LEFT_BARS

\* two peaks five indices apart were detected
C34_Witness ==
    \E m, n \in 1..Len(spikes) :
        /\ spikes[m].kind = "peak"
        /\ spikes[n].kind = "peak"
        /\ spikes[n].index = spikes[m].index + 5

\* a peak and a valley at neighbouring indices were detected
C34_AdjacentPeakValley ==
    \E m, n \in 1..Len(spikes) :
        /\ spikes[m].kind = "peak"
        /\ spikes[n].kind = "valley"
        /\ spikes[n].index = spikes[m].index + 1

\* C35: loading is true exactly when a series request is in flight, also when
\* a second request is started before the first has completed.
C35_LoadingWhileInFlight ==
    loading <=> BagCardinality(stockInFlight) > 0

\* a second series request was started while the first was in flight
C35_TwoInFlight ==
    /\ BagCardinality(stockInFlight) = 2
    /\ loading

\* the step adds the request r to the news requests in flight
Issues(r) == CopiesIn(r, newsInFlight') > CopiesIn(r, newsInFlight)

\* C36: the cache is keyed by the date alone: a click on a point that is no
\* detection and whose date is in the cache shows the cached text and issues
\* no request, whatever ticker the text was obtained for; every request that
\* is issued is for the ticker of the page at the time it is issued.
C36_CacheKeyedByDate ==
    [][/\ \A k \in ClickIndices :
             (InRange(data, k) /\ SpikesAtIndex(k) = {}
                 /\ At(data, k).date \in DOMAIN newsCache
                 /\ ResolvedClick(k))
                 => /\ hoveredSpike'.kind = "point"
                    /\ hoveredSpike'.newsLoaded
                    /\ hoveredSpike'.newsSummary
                           = newsCache[At(data, k).date]
                    /\ newsInFlight' = newsInFlight
       /\ \A r \in BagToSet(newsInFlight') :
             Issues(r) => r.symbol = symbol']_vars

\* the series of one ticker is shown and the selected point carries the
\* text that was obtained for the other ticker
C36_Witness ==
    /\ Selected
    /\ hoveredSpike.kind = "point"
    /\ hoveredSpike.newsLoaded
    /\ "query" \in DOMAIN hoveredSpike.newsSummary
    /\ hoveredSpike.newsSummary.query # symbol
    /\ shownFor # NULL
    /\ shownFor.symbol = symbol
    /\ Len(data) > 0
    /\ hoveredSpike.date \notin {r.date : r \in BagToSet(newsInFlight)}

(***************************************************************************)
(* Completions that find the selection idle or on another date             *)
(***************************************************************************)

\* the selection is dismissed or shows another date than the request's
SelectionElsewhere(req) == hoveredSpike = NULL \/ hoveredSpike.date # req.date

C37_OtherDate ==
    /\ hoveredSpike # NULL
    /\ ~hoveredSpike.newsLoaded
    /\ \E n \in 1..Len(spikes) :
          /\ spikes[n].newsLoaded
          /\ spikes[n].date # hoveredSpike.date
          /\ spikes[n].date \in DOMAIN newsCache

(***************************************************************************)
(* Re-clicking an enriched detection                                       *)
(***************************************************************************)

\* the step completes no series request: the series version stays
SameSeriesVersion == BagCardinality(stockInFlight') >= BagCardinality(stockInFlight)

\* C38: within one series version, the completion of the news request of a
\* detected peak or valley, whatever its outcome (summary, fallback text of
\* a non-OK answer, error text), marks that detection loaded with the text;
\* the detection stays loaded, its text changing only by a later completion
\* for its date; and a click that resolves to it selects it already loaded
\* with that text and issues no news request.
C38_EnrichedDetectionReused ==
    [][/\ \A req \in BagToSet(newsInFlight), outcome \in NewsOutcomes :
             (req.kind # "point" /\ FetchNewsDone(req, outcome))
                 => \A n \in 1..Len(spikes) :
                       spikes[n].date = req.date
                           => /\ spikes'[n].newsLoaded
                              /\ spikes'[n].newsSummary = NewsText(req, outcome)
       /\ \A n \in 1..Len(spikes) :
             (spikes[n].newsLoaded /\ SameSeriesVersion)
                 => /\ n <= Len(spikes')
                    /\ spikes'[n].newsLoaded
                    /\ \/ spikes'[n] = spikes[n]
                       \/ CompletesNewsFor(spikes[n].date)
       /\ \A k \in ClickIndices :
             (/\ SpikesAtIndex(k) # {}
              /\ spikes[FirstOf(SpikesAtIndex(k))].newsLoaded
              /\ ResolvedClick(k))
                 => /\ hoveredSpike' = spikes[FirstOf(SpikesAtIndex(k))]
                    /\ hoveredSpike'.newsLoaded
                    /\ newsInFlight' = newsInFlight
                    /\ spikes' = spikes]_vars

\* a detected peak or valley is selected, loaded with the text of a summary,
\* as the list has it, and no news request is in flight
C38_Witness ==
    /\ hoveredSpike # NULL
    /\ hoveredSpike.kind # "point"
    /\ hoveredSpike.newsLoaded
    /\ hoveredSpike.newsSummary \notin {FallbackMessage, ErrorMessage, NoSummaryText}
    /\ hoveredSpike \in {spikes[n] : n \in 1..Len(spikes)}
    /\ newsInFlight = EmptyBag

\* the same after a non-OK answer
C38_AfterFallback ==
    /\ hoveredSpike # NULL
    /\ hoveredSpike.kind # "point"
    /\ hoveredSpike.newsSummary = FallbackMessage
    /\ hoveredSpike \in {spikes[n] : n \in 1..Len(spikes)}
    /\ newsInFlight = EmptyBag

\* the same after an exception, which leaves the cache without the date
C38_AfterError ==
    /\ hoveredSpike # NULL
    /\ hoveredSpike.kind # "point"
    /\ hoveredSpike.newsSummary = ErrorMessage
    /\ hoveredSpike.date \notin DOMAIN newsCache
    /\ hoveredSpike \in {spikes[n] : n \in 1..Len(spikes)}
    /\ newsInFlight = EmptyBag

(***************************************************************************)
(* Clicks that are not resolved                                            *)
(***************************************************************************)

\* no element is rendered for the element's index in the preferred dataset
\* nor in the raw price dataset
NoRenderedElement(element, rendered) ==
    LET preferred == IF SpikesAtIndex(element.index) # {} THEN 1
                     ELSE DatasetIndexOf(element)
    IN  preferred \notin rendered /\ 0 \notin rendered

\* the click hits an element and is not resolved: the chart is not ready, the
\* index is outside the series, or no element is rendered for it
Unresolved(ready, elements, rendered) ==
    \/ ~ready
    \/ /\ Len(elements) > 0
       /\ \/ ~InRange(data, elements[1].index)
          \/ NoRenderedElement(elements[1], rendered)

ClickLeavesAll ==
    /\ hoveredSpike' = hoveredSpike
    /\ popoverPosition' = popoverPosition
    /\ newsCache' = newsCache
    /\ spikes' = spikes
    /\ newsInFlight' = newsInFlight
    /\ stockInFlight' = stockInFlight

\* C39: a chart click that is not resolved, because the chart instance is
\* not ready, the clicked index is outside the current series, or no element
\* is rendered for the index in the preferred dataset nor in the raw price
\* dataset, leaves the selection, the anchor, the cache and the detection
\* list unchanged and issues no request.
C39_UnresolvedClickLeavesAll ==
    [][\/ ClickLeavesAll
       \/ \A ready \in BOOLEAN, elements \in ClickElements,
             rendered \in SUBSET {0, 1}, viewportWidth \in ViewportWidths :
             ~(/\ ~loading
               /\ Len(data) > 0
               /\ Unresolved(ready, elements, rendered)
               /\ ChartClick(ready, elements, rendered, viewportWidth))]_vars

\* a popover is open with its request in flight over a series that has no
\* row at a clicked index, and the cache and the list are not empty
C39_Witness ==
    /\ ~loading
    /\ Len(data) > 0
    /\ \E k \in ClickIndices : ~InRange(data, k)
    /\ hoveredSpike # NULL
    /\ popoverPosition # NULL
    /\ newsInFlight # EmptyBag
    /\ DOMAIN newsCache # {}
    /\ Len(spikes) > 0

\* the same where a clicked index holds a detection, whose marker may be
\* missing from both datasets
C39_UnrenderedDetection ==
    /\ ~loading
    /\ hoveredSpike # NULL
    /\ \E k \in ClickIndices :
          /\ InRange(data, k)
          /\ SpikesAtIndex(k) # {}
          /\ hoveredSpike.index = k
    /\ newsInFlight # EmptyBag

(***************************************************************************)
(* The texts of the cache                                                  *)
(***************************************************************************)

\* a string that is not empty
NonEmptyString(v) == DOMAIN v # {} /\ "text" \in DOMAIN v /\ v.text # ""

AllCachedNonEmpty(cache) == \A d \in DOMAIN cache : NonEmptyString(cache[d])

\* C40: every value stored in the enrichment cache is a non-empty string,
\* so a click that synthesizes a point creates it with newsLoaded = true
\* exactly when its date is a key of the cache, with the cached text, the
\* truthiness test never taking a present entry for an absent one.
C40_CachedTextsNonEmpty ==
    [][/\ AllCachedNonEmpty(newsCache)
       /\ AllCachedNonEmpty(newsCache')
       /\ \A k \in ClickIndices :
             (InRange(data, k) /\ SpikesAtIndex(k) = {} /\ ResolvedClick(k))
                 => /\ hoveredSpike'.kind = "point"
                    /\ hoveredSpike'.newsLoaded
                           <=> At(data, k).date \in DOMAIN newsCache
                    /\ At(data, k).date \in DOMAIN newsCache
                           => hoveredSpike'.newsSummary
                                  = newsCache[At(data, k).date]]_vars

\* an answer without a usable summary was cached as the text that says so,
\* and a plain point of that date is selected, loaded with it
C40_Witness ==
    /\ hoveredSpike # NULL
    /\ hoveredSpike.kind = "point"
    /\ hoveredSpike.newsLoaded
    /\ hoveredSpike.date \in DOMAIN newsCache
    /\ newsCache[hoveredSpike.date] = NoSummaryText
    /\ hoveredSpike.newsSummary = NoSummaryText
    /\ newsInFlight = EmptyBag

\* a plain point whose date is no key of the cache is selected, not loaded
C40_PointNotCached ==
    /\ hoveredSpike # NULL
    /\ hoveredSpike.kind = "point"
    /\ ~hoveredSpike.newsLoaded
    /\ hoveredSpike.date \notin DOMAIN newsCache

============================================================================
